---- MODULE Spec2Model ----
(***************************************************************************)
(* Model of the rule34video resolution engine: identifier parsing and URL  *)
(* candidate generation (main.py, modules/utils.py, modules/video.py),     *)
(* the sequential page fetch of Video.load with its validation and error   *)
(* mapping, the lazily memoized record fields, and the quality-source map  *)
(* built by Video._parse_quality_urls.                                     *)
(*                                                                         *)
(* A Python str is modelled as a sequence of one-character strings.        *)
(***************************************************************************)
EXTENDS Integers, Sequences, FiniteSets, TLC

VARIABLES
    \* ---- plugin (main.py) ----
    url_cache,      \* Rule34VideoPlugin._video_url_cache: id -> URL
    identifier,     \* the identifier last handed to cmd_video_info
    parsed,         \* what _parse_video_identifier returned and Video() made of it
    \* ---- one Video object (modules/video.py) ----
    video_id,       \* Video._video_id
    full_url,       \* Video._full_url (None when not supplied)
    site,           \* the origin site: response class of every candidate, or Unknown
    pc,             \* position of the load() coroutine
    force,          \* the force argument of the running load()
    idx,            \* index of the loop `for try_url in url_variants`
    inflight,       \* set of URLs whose request is in flight
    fetched,        \* URLs requested by the running load(), in request order
    last_error,     \* local last_error of load()
    result,         \* how the last load() ended
    loaded,         \* Video._loaded
    html,           \* Video._html_content
    quality_urls,   \* Video._quality_urls, as a sequence of <<label, url>> (dict order)
    session,        \* Video._session
    own_session,    \* Video._own_session ("unset" before the first load)
    memo,           \* cached_property values stored in the instance
    last_read,      \* what the last accessor call returned or raised
    first_map,      \* history: the quality map right after the first successful load
    loads,          \* number of load() calls started
    reads,          \* number of accessor calls made
    \* ---- quality parsing on its own ----
    page_caps,      \* the captures of the page handed to _parse_quality_urls
    parse_out,      \* the map it produced
    picked,         \* the get_video_url call made on that map, and its result
    \* ---- text parsing on its own ----
    text_in,        \* the function applied and its argument
    text_out,       \* what it returned or raised
    \* ---- Client.search_videos ----
    search_pc,      \* where search_videos is: "idle", "gather", "done"
    tasks,          \* the state of the get_video task of each listing entry
    warnings        \* the ids logged by logger.warning, in order

vars == <<url_cache, identifier, parsed, video_id, full_url, site, pc, force, idx,
          inflight, fetched, last_error, result, loaded, html, quality_urls,
          session, own_session, memo, last_read, first_map, loads, reads,
          page_caps, parse_out, picked, text_in, text_out, search_pc, tasks,
          warnings>>

pluginVars == <<url_cache, identifier, parsed>>
videoVars == <<video_id, full_url, site, pc, force, idx, inflight, fetched,
               last_error, result, loaded, html, quality_urls, session,
               own_session, memo, last_read, first_map, loads, reads>>
parseVars == <<page_caps, parse_out, picked>>
textVars == <<text_in, text_out>>
gatherVars == <<search_pc, tasks, warnings>>

\* Python None where a str is expected: a sequence no str is equal to
None == <<"None">>
\* Python None where a page body is expected
NoBody == [neg |-> FALSE, len |-> 0, marker |-> FALSE, page |-> "None"]

(***************************************************************************)
(* Strings                                                                 *)
(***************************************************************************)
Digits == {"0", "1", "2", "3", "4", "5", "6", "7", "8", "9"}

ROOT_URL == <<"h","t","t","p","s",":","/","/","r","u","l","e","3","4",
              "v","i","d","e","o",".","c","o","m">>

S_http == <<"h","t","t","p">>
S_video == <<"/","v","i","d","e","o","/">>
S_videos == <<"/","v","i","d","e","o","s","/">>
S_slash == <<"/">>

\* s[i..] starts with p
MatchAt(s, p, i) ==
    /\ i >= 1
    /\ i + Len(p) - 1 <= Len(s)
    /\ SubSeq(s, i, i + Len(p) - 1) = p

StartsWith(s, p) == MatchAt(s, p, 1)
EndsWith(s, p) == Len(p) <= Len(s) /\ MatchAt(s, p, Len(s) - Len(p) + 1)
Contains(s, p) == \E i \in 1..(Len(s) + 1) : MatchAt(s, p, i)

\* str.replace(old, new): every non-overlapping occurrence, left to right
RECURSIVE Replace(_, _, _)
Replace(s, old, new) ==
    IF Len(s) = 0 THEN <<>>
    ELSE IF MatchAt(s, old, 1)
         THEN new \o Replace(SubSeq(s, Len(old) + 1, Len(s)), old, new)
         ELSE <<s[1]>> \o Replace(Tail(s), old, new)

\* str.rstrip(c)
RECURSIVE RStrip(_, _)
RStrip(s, c) ==
    IF Len(s) > 0 /\ s[Len(s)] = c THEN RStrip(SubSeq(s, 1, Len(s) - 1), c) ELSE s

RECURSIVE LStrip(_, _)
LStrip(s, c) ==
    IF Len(s) > 0 /\ s[1] = c THEN LStrip(Tail(s), c) ELSE s

\* str.strip(): whitespace off both ends
Strip(s) == LStrip(RStrip(s, " "), " ")

\* str.isdigit()
IsDigit(s) == Len(s) > 0 /\ \A i \in 1..Len(s) : s[i] \in Digits

\* the longest run of digits of s that starts at i (regex \d+, greedy)
RECURSIVE DigitRun(_, _)
DigitRun(s, i) ==
    IF i <= Len(s) /\ s[i] \in Digits THEN <<s[i]>> \o DigitRun(s, i + 1) ELSE <<>>

\* str.split('/', 1)
FirstSlash(s) == CHOOSE i \in 1..Len(s) : s[i] = "/" /\ \A j \in 1..(i - 1) : s[j] # "/"
Split1(s) == <<SubSeq(s, 1, FirstSlash(s) - 1), SubSeq(s, FirstSlash(s) + 1, Len(s))>>

(***************************************************************************)
(* modules/utils.py: extract_video_id                                      *)
(***************************************************************************)
\* where the digits captured by REGEX_VIDEO_ID = /videos?/(\d+) start when the
\* pattern matches at i, 0 when it does not match there
VideoIdAt(s, i) ==
    LET v == <<"/","v","i","d","e","o">>
        j == IF MatchAt(s, v \o <<"s","/">>, i) THEN i + 8
             ELSE IF MatchAt(s, v \o <<"/">>, i) THEN i + 7 ELSE 0
    IN IF j > 0 /\ Len(DigitRun(s, j)) > 0 THEN j ELSE 0

\* the same for REGEX_VIDEO_ID_ALT = video[_-]?(\d+)
VideoIdAltAt(s, i) ==
    LET v == <<"v","i","d","e","o">>
        j == IF ~MatchAt(s, v, i) THEN 0
             ELSE IF i + 5 <= Len(s) /\ s[i + 5] \in {"_", "-"}
                     /\ Len(DigitRun(s, i + 6)) > 0 THEN i + 6
             ELSE i + 5
    IN IF j > 0 /\ Len(DigitRun(s, j)) > 0 THEN j ELSE 0

extract_video_id(url_or_id) ==
    LET s == Strip(url_or_id)
        hits == {i \in 1..Len(s) : VideoIdAt(s, i) > 0}
        alts == {i \in 1..Len(s) : VideoIdAltAt(s, i) > 0}
        first(H) == CHOOSE i \in H : \A k \in H : i <= k
    IN IF Len(url_or_id) = 0 THEN None
       ELSE IF IsDigit(s) THEN s
       ELSE IF hits # {} THEN DigitRun(s, VideoIdAt(s, first(hits)))
       ELSE IF alts # {} THEN DigitRun(s, VideoIdAltAt(s, first(alts)))
       ELSE None

(***************************************************************************)
(* modules/video.py: Video._get_url_variants                               *)
(***************************************************************************)
\* mutant: the forms without a trailing slash are forgotten
IdFallbacksSlashOnly(id) ==
    << ROOT_URL \o S_video \o id \o S_slash,
       ROOT_URL \o S_videos \o id \o S_slash >>

\* the four id-only URLs appended for every video
IdFallbacks(id) ==
    << ROOT_URL \o S_video \o id \o S_slash,
       ROOT_URL \o S_videos \o id \o S_slash,
       ROOT_URL \o S_video \o id,
       ROOT_URL \o S_videos \o id >>

\* the full URL made absolute, then its /videos/ <-> /video/ sibling
FullUrlVariants(fu) ==
    LET abs == IF StartsWith(fu, S_http) THEN fu ELSE ROOT_URL \o fu
    IN IF Contains(abs, S_videos) THEN <<abs, Replace(abs, S_videos, S_video)>>
       ELSE IF Contains(abs, S_video) THEN <<abs, Replace(abs, S_video, S_videos)>>
       ELSE <<abs>>

\* order-preserving removal of duplicates (the seen set of the code)
RECURSIVE Dedupe(_, _)
Dedupe(vs, seen) ==
    IF Len(vs) = 0 THEN <<>>
    ELSE IF vs[1] \in seen THEN Dedupe(Tail(vs), seen)
         ELSE <<vs[1]>> \o Dedupe(Tail(vs), seen \cup {vs[1]})

UrlVariantsList(id, fu) ==
    (IF fu # None /\ Len(fu) > 0 THEN FullUrlVariants(fu) ELSE <<>>) \o IdFallbacks(id)

get_url_variants(id, fu) == Dedupe(UrlVariantsList(id, fu), {})

(***************************************************************************)
(* main.py: the id -> URL cache and the identifier handed to the resolver  *)
(***************************************************************************)
MaxIdLen == 5
MaxResults == 1

IdAlphabet == {"1", "/", "a", " "}

RECURSIVE StringsUpTo(_, _)
StringsUpTo(A, n) ==
    IF n = 0 THEN {<<>>}
    ELSE LET shorter == StringsUpTo(A, n - 1)
         IN shorter \cup {Append(s, c) : s \in shorter, c \in A}

\* identifiers typed by the user, and three of the URL forms extract_video_id accepts
UrlIdentifiers ==
    { ROOT_URL \o S_videos \o <<"1", "/", "a">>,
      <<"v","i","d","e","o","-","1","1">>,
      <<"v","i","d","e","o","s","1">> }
Identifiers == (StringsUpTo(IdAlphabet, MaxIdLen) \ {<<>>}) \cup UrlIdentifiers

CacheIds == {<<"1">>, <<"1", "1">>}
Slugs == {<<"a">>}

\* an entry of Client.search found by a pattern with a slug: the path is
\* normalised to /video/ and ends with /
SlugEntry(id, slug) ==
    [video_id |-> id, url |-> ROOT_URL \o S_video \o id \o S_slash \o slug \o S_slash]

\* an entry of the id-only fallback of Client.search
BareEntry(id) ==
    [video_id |-> id, url |-> ROOT_URL \o S_video \o id \o S_slash]

SearchEntries ==
    {SlugEntry(id, slug) : id \in CacheIds, slug \in Slugs}
        \cup {BareEntry(id) : id \in CacheIds}

RECURSIVE SeqsUpTo(_, _)
SeqsUpTo(S, n) ==
    IF n = 0 THEN {<<>>}
    ELSE LET shorter == SeqsUpTo(S, n - 1)
         IN shorter \cup {Append(s, x) : s \in shorter, x \in S}

CacheGet(cache, id) == IF id \in DOMAIN cache THEN cache[id] ELSE None
CachePut(cache, id, url) == [k \in DOMAIN cache \cup {id} |-> IF k = id THEN url ELSE cache[k]]

\* mutant: every result is stored
CacheOneAlways(cache, r) == CachePut(cache, r.video_id, r.url)

\* one iteration of the loop of _cache_search_results
CacheOne(cache, r) ==
    IF Len(r.video_id) > 0 /\ Len(r.url) > 0
    THEN IF Contains(r.url, S_slash) /\ ~EndsWith(r.url, S_slash \o r.video_id \o S_slash)
         THEN CachePut(cache, r.video_id, r.url)
         ELSE IF r.video_id \notin DOMAIN cache
              THEN CachePut(cache, r.video_id, r.url)
              ELSE cache
    ELSE cache

RECURSIVE cache_search_results(_, _)
cache_search_results(cache, results) ==
    IF Len(results) = 0 THEN cache
    ELSE cache_search_results(CacheOne(cache, results[1]), Tail(results))

\* mutant: the slug URL is built on the plural path of build_video_url
parse_video_identifier_plural(ident, cache) ==
    LET s == Strip(ident)
    IN IF Contains(s, S_slash)
       THEN LET parts == Split1(s)
                slug == RStrip(parts[2], "/")
            IN <<parts[1], ROOT_URL \o S_videos \o parts[1] \o S_slash \o slug \o S_slash>>
       ELSE <<s, CacheGet(cache, s)>>

\* _parse_video_identifier: <<video_id, full_url>>
parse_video_identifier(ident, cache) ==
    LET s == Strip(ident)
    IN IF Contains(s, S_slash)
       THEN LET parts == Split1(s)
                slug == RStrip(parts[2], "/")
            IN <<parts[1], ROOT_URL \o S_video \o parts[1] \o S_slash \o slug \o S_slash>>
       ELSE <<s, CacheGet(cache, s)>>

\* Client.get_video as far as the candidate list: Video.__init__ raises
\* InvalidURL when no id can be extracted, load() asks for the variants
ResolveCandidates(ident, cache) ==
    LET p == parse_video_identifier(ident, cache)
        vid == extract_video_id(p[1])
    IN IF vid = None
       THEN [error |-> "InvalidURL", video_id |-> None, full_url |-> p[2], variants |-> <<>>]
       ELSE [error |-> "none", video_id |-> vid, full_url |-> p[2],
             variants |-> get_url_variants(vid, p[2])]

NotParsed == [error |-> "unparsed", video_id |-> None, full_url |-> None, variants |-> <<>>]

\* the variables of the Video object and of the parser, at rest
VideoIdle ==
    /\ video_id = None /\ full_url = None /\ site = <<>> /\ pc = "idle"
    /\ force = FALSE /\ idx = 0 /\ inflight = {} /\ fetched = <<>>
    /\ last_error = 0 /\ result = "none" /\ loaded = FALSE /\ html = NoBody
    /\ quality_urls = <<>> /\ session = "none" /\ own_session = "unset"
    /\ memo = <<>> /\ last_read = <<>> /\ first_map = <<>> /\ loads = 0
    /\ reads = 0
ParseIdle ==
    /\ page_caps = <<>>
    /\ parse_out = <<"not run">>
    /\ picked = [request |-> None, url |-> None]
TextIdle ==
    /\ text_in = [fn |-> "none", arg |-> <<>>]
    /\ text_out = [raised |-> "not applied", value |-> 0]
GatherIdle == search_pc = "idle" /\ tasks = <<>> /\ warnings = <<>>
PluginIdle == url_cache = <<>> /\ identifier = <<>> /\ parsed = NotParsed

InitIdent ==
    /\ url_cache = <<>>
    /\ identifier \in Identifiers
    /\ parsed = NotParsed
    /\ VideoIdle
    /\ ParseIdle
    /\ TextIdle
    /\ GatherIdle

\* cmd_search / cmd_latest / cmd_popular storing a listing in the cache
CacheSearchResults ==
    \E results \in SeqsUpTo(SearchEntries, MaxResults) :
        /\ Len(results) > 0
        /\ url_cache' = cache_search_results(url_cache, results)
        /\ UNCHANGED <<identifier, parsed>>
        /\ UNCHANGED videoVars
        /\ UNCHANGED parseVars
        /\ UNCHANGED textVars
        /\ UNCHANGED gatherVars

\* cmd_video_info on the identifier, up to the candidate list of Video.load
CmdVideoInfo ==
    /\ Len(identifier) > 0
    /\ parsed' = ResolveCandidates(identifier, url_cache)
    /\ UNCHANGED <<url_cache, identifier>>
    /\ UNCHANGED videoVars
    /\ UNCHANGED parseVars
    /\ UNCHANGED textVars
    /\ UNCHANGED gatherVars

NextIdent == CacheSearchResults \/ CmdVideoInfo

SpecIdent == InitIdent /\ [][NextIdent]_vars

\* the listings handed to _cache_search_results on its own: entries of three
\* ids with a slug, with a slug that is the id itself, and without a slug
ListedIds == {<<"1">>, <<"1", "1">>, <<"2">>}
ListedEntries ==
    {SlugEntry(id, slug) : id \in ListedIds, slug \in Slugs \cup {<<"1">>}}
        \cup {BareEntry(id) : id \in ListedIds}

InitCache ==
    /\ url_cache = <<>>
    /\ identifier = <<>>
    /\ parsed = NotParsed
    /\ VideoIdle
    /\ ParseIdle
    /\ TextIdle
    /\ GatherIdle

\* _cache_search_results(results); text_in keeps the argument of the call
CacheResults ==
    \E results \in SeqsUpTo(ListedEntries, MaxResults) :
        /\ text_in' = [fn |-> "_cache_search_results", arg |-> results]
        /\ url_cache' = cache_search_results(url_cache, results)
        /\ UNCHANGED <<identifier, parsed, text_out>>
        /\ UNCHANGED videoVars
        /\ UNCHANGED parseVars
        /\ UNCHANGED gatherVars

NextCache == CacheResults

SpecCache == InitCache /\ [][NextCache]_vars

(***************************************************************************)
(* modules/video.py: the quality-source map (_parse_quality_urls)          *)
(***************************************************************************)
MaxCaps == 2
MaxAlt == 1

S_http_scheme == <<"h","t","t","p",":","/","/">>
S_https_scheme == <<"h","t","t","p","s",":","/","/">>
S_https_colon == <<"h","t","t","p","s",":">>
S_function == <<"f","u","n","c","t","i","o","n","/">>
S_mp4 == <<".","m","p","4">>

\* the quality labels the code writes itself
L_default == <<"d","e","f","a","u","l","t">>
L_alt == <<"a","l","t">>
L_best == <<"b","e","s","t">>
L_worst == <<"w","o","r","s","t">>
L_half == <<"h","a","l","f">>
L_2160p == <<"2","1","6","0","p">>
L_1080p == <<"1","0","8","0","p">>
L_720p == <<"7","2","0","p">>
L_480p == <<"4","8","0","p">>
L_360p == <<"3","6","0","p">>

UpperLetters == <<"A","B","C","D","E","F","G","H","I","J","K","L","M",
                  "N","O","P","Q","R","S","T","U","V","W","X","Y","Z">>
LowerLetters == <<"a","b","c","d","e","f","g","h","i","j","k","l","m",
                  "n","o","p","q","r","s","t","u","v","w","x","y","z">>

LowerChar(c) ==
    IF \E k \in 1..Len(UpperLetters) : UpperLetters[k] = c
    THEN LowerLetters[CHOOSE k \in 1..Len(UpperLetters) : UpperLetters[k] = c]
    ELSE c

\* str.lower()
Lower(s) == [i \in 1..Len(s) |-> LowerChar(s[i])]

\* `if url:` and `if not url:` on an Optional[str]
Falsy(s) == s = None \/ s = <<>>

\* re.match(r'^function/\d+/(https?://.*)', url): group 1, None without a match
FunctionWrapped(u) ==
    LET d == DigitRun(u, Len(S_function) + 1)
        j == Len(S_function) + Len(d) + 1
    IN IF /\ StartsWith(u, S_function)
          /\ Len(d) > 0
          /\ MatchAt(u, S_slash, j)
          /\ (MatchAt(u, S_http_scheme, j + 1) \/ MatchAt(u, S_https_scheme, j + 1))
       THEN SubSeq(u, j + 1, Len(u))
       ELSE None

\* the number of "/" of s from position i on
RECURSIVE SlashRun(_, _)
SlashRun(s, i) == IF i <= Len(s) /\ s[i] = "/" THEN 1 + SlashRun(s, i + 1) ELSE 0

\* re.sub(r'([^:])//+', r'\1/', url)
RECURSIVE CollapseSlashes(_)
CollapseSlashes(s) ==
    IF Len(s) = 0 THEN <<>>
    ELSE IF s[1] # ":" /\ SlashRun(s, 2) >= 2
         THEN <<s[1], "/">> \o CollapseSlashes(SubSeq(s, 2 + SlashRun(s, 2), Len(s)))
         ELSE <<s[1]>> \o CollapseSlashes(Tail(s))

\* _clean_video_url
clean_video_url(url) ==
    IF Falsy(url) THEN None
    ELSE LET s == Strip(url)
             f == IF FunctionWrapped(s) # None THEN FunctionWrapped(s) ELSE s
             c == CollapseSlashes(f)
         IN IF StartsWith(c, S_http_scheme) \/ StartsWith(c, S_https_scheme) THEN c
            ELSE IF StartsWith(c, <<"/", "/">>) THEN S_https_colon \o c
            ELSE IF StartsWith(c, S_slash) THEN ROOT_URL \o c
            ELSE c

\* what follows the digits in the three patterns of _extract_quality_from_url:
\* p?\.mp4, p[_/] and [_/], letters matched without case
TailMatches(k, u, j) ==
    CASE k = 1 -> \/ MatchAt(Lower(u), S_mp4, j)
                  \/ (MatchAt(Lower(u), <<"p">>, j) /\ MatchAt(Lower(u), S_mp4, j + 1))
      [] k = 2 -> /\ MatchAt(Lower(u), <<"p">>, j)
                  /\ (MatchAt(u, <<"_">>, j + 1) \/ MatchAt(u, S_slash, j + 1))
      [] OTHER -> MatchAt(u, <<"_">>, j) \/ MatchAt(u, S_slash, j)

\* [_/](\d{3,4}) followed by the tail of pattern k, at position i: the digits,
\* four before three, or None
ResolutionAt(k, u, i) ==
    IF ~(MatchAt(u, <<"_">>, i) \/ MatchAt(u, S_slash, i)) THEN None
    ELSE IF Len(DigitRun(u, i + 1)) >= 4 /\ TailMatches(k, u, i + 5)
         THEN SubSeq(u, i + 1, i + 4)
    ELSE IF Len(DigitRun(u, i + 1)) >= 3 /\ TailMatches(k, u, i + 4)
         THEN SubSeq(u, i + 1, i + 3)
    ELSE None

\* re.search of pattern k: group 1 of the leftmost match, or None
ResolutionSearch(k, u) ==
    IF \E i \in 1..Len(u) : ResolutionAt(k, u, i) # None
    THEN ResolutionAt(k, u, CHOOSE i \in 1..Len(u) :
                                /\ ResolutionAt(k, u, i) # None
                                /\ \A j \in 1..(i - 1) : ResolutionAt(k, u, j) = None)
    ELSE None

\* _extract_quality_from_url
extract_quality_from_url(u) ==
    IF Falsy(u) THEN L_default
    ELSE IF ResolutionSearch(1, u) # None THEN ResolutionSearch(1, u) \o <<"p">>
    ELSE IF ResolutionSearch(2, u) # None THEN ResolutionSearch(2, u) \o <<"p">>
    ELSE IF ResolutionSearch(3, u) # None THEN ResolutionSearch(3, u) \o <<"p">>
    ELSE L_default

\* the labels of the quality-specific regexes, in the order they are tried
FixedLabels == <<L_2160p, L_1080p, L_720p, L_480p, L_360p>>

\* source strings a page may hold where a media URL is expected
U_a720 == <<"h","t","t","p",":","/","/","a","/","7","2","0",".","m","p","4">>
U_b720 == <<"h","t","t","p",":","/","/","b","/","7","2","0",".","m","p","4">>
U_a == <<"h","t","t","p",":","/","/","a","/","v",".","m","p","4">>
U_wrapped == <<"f","u","n","c","t","i","o","n","/","0","/">> \o U_a720
U_blank == <<" ">>
U_protocol_relative == <<"/","/","a","/","7","2","0",".","m","p","4">>
U_root_relative == <<"/","v",".","m","p","4">>
U_relative == <<"v",".","m","p","4">>

\* the texts a page may hold where a quality label is expected
T_720p == L_720p
T_HD == <<"H","D">>
T_best == L_best

\* a capture: what one extraction pass matched in the page. url is the captured
\* source string, text the label written next to it (None when there is none);
\* slot is 0 for video_url and k for video_alt_url<k> (pass 1 only)
Cap(p, s, u, t) == [pass |-> p, slot |-> s, url |-> u, text |-> t]

Captures ==
    [pass : {1}, slot : 0..MaxAlt, url : {U_a720, U_wrapped, U_blank, U_relative},
     text : {None, T_720p, T_best}]
    \cup [pass : {2, 6}, slot : {0}, url : {U_a720, U_a}, text : {None}]
    \cup [pass : {3}, slot : {0}, url : {U_b720, U_protocol_relative},
          text : {None, T_HD}]
    \cup [pass : {4}, slot : {0}, url : {U_a, U_root_relative, U_relative},
          text : {None, T_720p}]
    \cup [pass : {5}, slot : {0}, url : {U_b720, U_blank}, text : {L_1080p, L_720p}]
    \cup [pass : {7}, slot : {0}, url : {U_a, U_blank, U_root_relative}, text : {None}]

\* captures in the order the passes meet them: by pass, pass 1 by slot
InPassOrder(cs) ==
    \A i \in 1..(Len(cs) - 1) :
        \/ cs[i].pass < cs[i + 1].pass
        \/ /\ cs[i].pass = cs[i + 1].pass
           /\ cs[i].pass = 1 => cs[i].slot < cs[i + 1].slot
           /\ cs[i].pass = 5 => cs[i].text # cs[i + 1].text

CapSeqs(n) == {cs \in SeqsUpTo(Captures, n) : InPassOrder(cs)}

\* dict access on the map, kept as a sequence of <<label, url>> in insertion order
MapHas(m, l) == \E i \in 1..Len(m) : m[i][1] = l
MapGet(m, l) == m[CHOOSE i \in 1..Len(m) : m[i][1] = l][2]
\* self._quality_urls[l] = u
MapSet(m, l, u) ==
    IF MapHas(m, l)
    THEN [i \in 1..Len(m) |-> IF m[i][1] = l THEN <<l, u>> ELSE m[i]]
    ELSE Append(m, <<l, u>>)

\* the label a capture is stored under
CapLabel(c) ==
    CASE c.pass = 1 -> IF c.text # None THEN Strip(c.text)
                       ELSE IF c.slot = 0 THEN L_default ELSE L_alt
      [] c.pass \in {3, 4} -> IF ~Falsy(c.text) THEN c.text
                              ELSE extract_quality_from_url(clean_video_url(c.url))
      [] c.pass \in {2, 6} -> extract_quality_from_url(clean_video_url(c.url))
      [] c.pass = 5 -> c.text
      [] OTHER -> L_default

\* passes 1 to 4 (flashvars, kt_player, sources, <source> tags): every capture
\* with a non-empty cleaned URL is written; a <source> tag counts only with
\* '.mp4' in its src
RECURSIVE WriteAll(_, _)
WriteAll(m, cs) ==
    IF Len(cs) = 0 THEN m
    ELSE LET c == cs[1]
         IN IF /\ ~Falsy(clean_video_url(c.url))
               /\ c.pass = 4 => Contains(c.url, S_mp4)
            THEN WriteAll(MapSet(m, CapLabel(c), clean_video_url(c.url)), Tail(cs))
            ELSE WriteAll(m, Tail(cs))

\* pass 5: each quality-specific regex, only for a label not in the map
RECURSIVE WriteFixed(_, _, _)
WriteFixed(m, cs, k) ==
    IF k > Len(FixedLabels) THEN m
    ELSE LET hits == SelectSeq(cs, LAMBDA c : c.text = FixedLabels[k])
         IN IF ~MapHas(m, FixedLabels[k]) /\ Len(hits) > 0
               /\ ~Falsy(clean_video_url(hits[1].url))
            THEN WriteFixed(MapSet(m, FixedLabels[k], clean_video_url(hits[1].url)), cs, k + 1)
            ELSE WriteFixed(m, cs, k + 1)

\* pass 6: the scan for .mp4 URLs; a URL seen before is skipped, a label in the
\* map is kept
RECURSIVE WriteScan(_, _, _)
WriteScan(m, cs, seen) ==
    IF Len(cs) = 0 THEN m
    ELSE LET u == clean_video_url(cs[1].url)
         IN IF ~Falsy(u) /\ u \notin seen
            THEN WriteScan(IF MapHas(m, CapLabel(cs[1])) THEN m
                           ELSE MapSet(m, CapLabel(cs[1]), u),
                           Tail(cs), seen \cup {u})
            ELSE WriteScan(m, Tail(cs), seen)

OfPass(cs, P) == SelectSeq(cs, LAMBDA c : c.pass \in P)

parse_quality_urls(m0, cs) ==
    LET m4 == WriteAll(m0, OfPass(cs, {1, 2, 3, 4}))
        m5 == WriteFixed(m4, OfPass(cs, {5}), 1)
        m6 == IF Len(m5) = 0 THEN WriteScan(m5, OfPass(cs, {6}), {}) ELSE m5
        g == OfPass(cs, {7})
    IN IF Len(m6) = 0 /\ Len(g) > 0 /\ ~Falsy(clean_video_url(g[1].url))
       THEN MapSet(m6, L_default, clean_video_url(g[1].url))
       ELSE m6

Keys(m) == [i \in 1..Len(m) |-> m[i][1]]

DigitChars == <<"0", "1", "2", "3", "4", "5", "6", "7", "8", "9">>
DigitValue(c) == (CHOOSE k \in 1..Len(DigitChars) : DigitChars[k] = c) - 1

\* int() of a run of digits
RECURSIVE ToInt(_)
ToInt(d) ==
    IF Len(d) = 0 THEN 0
    ELSE 10 * ToInt(SubSeq(d, 1, Len(d) - 1)) + DigitValue(d[Len(d)])

\* re.search(r'(\d+)', s): group 1 of the leftmost match, <<>> without a match
FirstDigitRun(s) ==
    IF \E i \in 1..Len(s) : s[i] \in Digits
    THEN DigitRun(s, CHOOSE i \in 1..Len(s) :
                         s[i] \in Digits /\ \A j \in 1..(i - 1) : s[j] \notin Digits)
    ELSE <<>>

\* get_resolution: the first run of digits of a label as a number, 0 without digits
get_resolution(q) == IF FirstDigitRun(q) = <<>> THEN 0 ELSE ToInt(FirstDigitRun(q))

\* sorted(..., key=get_resolution, reverse=True): stable
RECURSIVE InsertDesc(_, _)
InsertDesc(sorted, l) ==
    IF Len(sorted) = 0 THEN <<l>>
    ELSE IF get_resolution(sorted[1]) < get_resolution(l) THEN <<l>> \o sorted
    ELSE <<sorted[1]>> \o InsertDesc(Tail(sorted), l)

\* mutant: the labels are left in the order of the map
SortKept(ls) == ls

RECURSIVE SortDesc(_)
SortDesc(ls) ==
    IF Len(ls) = 0 THEN <<>>
    ELSE InsertDesc(SortDesc(SubSeq(ls, 1, Len(ls) - 1)), ls[Len(ls)])

\* normalize_quality of a str
normalize_quality(quality) ==
    LET q == Strip(Lower(quality))
    IN IF q \in {L_best, <<"h","i","g","h","e","s","t">>, <<"m","a","x">>} THEN L_best
       ELSE IF q \in {L_worst, <<"l","o","w","e","s","t">>, <<"m","i","n">>} THEN L_worst
       ELSE IF q \in {L_half, <<"m","e","d","i","u","m">>, <<"m","i","d">>} THEN L_half
       ELSE IF FirstDigitRun(q) # <<>> THEN FirstDigitRun(q) \o <<"p">>
       ELSE L_best

\* select_best_quality
select_best_quality(available_qualities, target) ==
    LET sq == SortDesc(available_qualities)
        t == normalize_quality(target)
        exact == SelectSeq(sq, LAMBDA l : get_resolution(l) = get_resolution(t))
        below == SelectSeq(sq, LAMBDA l : get_resolution(l) <= get_resolution(t))
    IN IF Len(available_qualities) = 0 THEN None
       ELSE IF t = L_best THEN sq[1]
       ELSE IF t = L_worst THEN sq[Len(sq)]
       ELSE IF t = L_half THEN sq[(Len(sq) \div 2) + 1]
       ELSE IF Len(exact) > 0 THEN exact[1]
       ELSE IF Len(below) > 0 THEN below[1]
       ELSE sq[Len(sq)]

\* get_video_url returns None
NoUrl == None

\* Video.get_video_url on a loaded record whose map is m
get_video_url(m, quality) ==
    LET q == normalize_quality(quality)
        selected == select_best_quality(Keys(m), q)
    IN IF Len(m) = 0 THEN NoUrl
       ELSE IF MapHas(m, q) THEN MapGet(m, q)
       ELSE IF ~Falsy(selected) THEN MapGet(m, selected)
       ELSE m[1][2]

\* the qualities asked of get_video_url, besides the labels of the map
Requests == {L_best, L_worst, L_720p}

NotRun == <<"not run">>
NoPick == [request |-> None, url |-> None]

InitParse ==
    /\ page_caps \in CapSeqs(MaxCaps)
    /\ parse_out = NotRun
    /\ picked = NoPick
    /\ PluginIdle
    /\ VideoIdle
    /\ TextIdle
    /\ GatherIdle

\* _parse_quality_urls on a fresh record
ParseQualityUrls ==
    /\ parse_out = NotRun
    /\ parse_out' = parse_quality_urls(<<>>, page_caps)
    /\ UNCHANGED <<page_caps, picked>>
    /\ UNCHANGED pluginVars
    /\ UNCHANGED videoVars
    /\ UNCHANGED textVars
    /\ UNCHANGED gatherVars

\* get_video_url(quality) on the record once loaded
PickVideoUrl ==
    /\ parse_out # NotRun
    /\ picked = NoPick
    /\ \E q \in Requests \cup {parse_out[i][1] : i \in 1..Len(parse_out)} :
        picked' = [request |-> q, url |-> get_video_url(parse_out, q)]
    /\ UNCHANGED <<page_caps, parse_out>>
    /\ UNCHANGED pluginVars
    /\ UNCHANGED videoVars
    /\ UNCHANGED textVars
    /\ UNCHANGED gatherVars

NextParse == ParseQualityUrls \/ PickVideoUrl

SpecParse == InitParse /\ [][NextParse]_vars

(***************************************************************************)
(* modules/video.py: Video.__init__, Video.load                            *)
(***************************************************************************)
MaxLoads == 2

\* How a candidate URL answers a GET:
\*   "404"          status 404
\*   "status"       a status other than 200 and 404
\*   "clienterror"  the request raises an aiohttp.ClientError
\*   "timeout"      the 30 s total timeout expires: asyncio.TimeoutError, which
\*                  is not an aiohttp.ClientError
\*   "bad200"       status 200 with a body the validation rejects
\*   "ok200"        status 200 with a body the validation accepts
Classes == {"404", "status", "clienterror", "timeout", "bad200", "ok200"}

MIN_CONTENT_LENGTH == 1000
LARGE_CONTENT_LENGTH == 5000

\* A page body: whether it holds one of the error-page texts, its length,
\* whether it holds one of the video_indicators, and which page it is.
Pages == {"A", "B"}

\* the bodies the origin serves: one for each way through the checks of load()
Body(n, l, m, p) == [neg |-> n, len |-> l, marker |-> m, page |-> p]
SiteBodies ==
    UNION { { Body(TRUE, 5001, TRUE, p), Body(FALSE, 999, TRUE, p),
              Body(FALSE, 1000, FALSE, p), Body(FALSE, 5000, FALSE, p),
              Body(FALSE, 1000, TRUE, p), Body(FALSE, 5001, FALSE, p) } : p \in Pages }

\* what the extraction passes capture in each page
PageCaptures(page) ==
    IF page = "A"
    THEN << Cap(1, 0, U_wrapped, T_720p) >>
    ELSE << Cap(1, 0, U_b720, T_720p), Cap(4, 0, U_a, None) >>

\* the texts load() looks for in a body
S_video_not_found == <<"V","i","d","e","o"," ","n","o","t"," ","f","o","u","n","d">>
S_title_404 == <<"<","t","i","t","l","e",">","4","0","4">>
S_page_not_found == <<"P","a","g","e"," ","n","o","t"," ","f","o","u","n","d">>
video_indicators ==
    << <<"<","v","i","d","e","o">>,
       <<"v","i","d","e","o","_","u","r","l">>,
       <<"s","o","u","r","c","e","s">>,
       <<"o","g",":","v","i","d","e","o">>,
       <<"p","l","a","y","e","r">>,
       <<"v","i","d","e","o","-","p","l","a","y","e","r">>,
       <<"v","i","d","e","o","_","p","l","a","y","e","r">>,
       <<"k","t","_","p","l","a","y","e","r">>,
       <<"f","l","a","s","h","v","a","r","s">>,
       <<".","m","p","4">>,
       <<"v","i","d","e","o","/","m","p","4">>,
       <<"u","p","l","o","a","d","D","a","t","e">>,
       <<"d","u","r","a","t","i","o","n">> >>

\* a body as load() sees it: the part of its text the checks can tell apart,
\* and len(html_content)
MaxFrags == 2
Fragments ==
    { S_video_not_found, S_title_404, S_page_not_found, <<"<","t","i","t","l","e",">">>, <<"4","0","4">>,
      <<"v","i","d","e","o"," ","n","o","t"," ","f","o","u","n","d">>, <<"<","V","I","D","E","O">>, <<"f","l","a","s","h","v","a","r","s">>, <<"<","p",">">> }
RECURSIVE Join(_)
Join(fs) == IF Len(fs) = 0 THEN <<>> ELSE fs[1] \o Join(Tail(fs))
Lengths == {999, 1000, 5000, 5001}
Doc(fs, l) == [text |-> Join(fs), len |-> l]
Statuses == {200, 404, 500}

\* "Video not found" in html_content, "<title>404" in html_content or
\* "Page not found" in html_content
HasNegative(text) ==
    \/ Contains(text, S_video_not_found)
    \/ Contains(text, S_title_404)
    \/ Contains(text, S_page_not_found)

\* indicator.lower() in html_content.lower(), for some indicator
HasIndicator(text) ==
    \E i \in 1..Len(video_indicators) : Contains(Lower(text), Lower(video_indicators[i]))

\* what the checks of load() see of a body
Scan(doc, p) == Body(HasNegative(doc.text), doc.len, HasIndicator(doc.text), p)

\* mutant: the error-page texts are not looked for
ValidateUnsigned(b) ==
    /\ ~(b.len < MIN_CONTENT_LENGTH)
    /\ (b.marker \/ b.len > LARGE_CONTENT_LENGTH)

\* the checks of load() on a 200 response
Validate(b) ==
    /\ ~b.neg
    /\ ~(b.len < MIN_CONTENT_LENGTH)
    /\ (b.marker \/ b.len > LARGE_CONTENT_LENGTH)

\* the body of the `async with` of load() for one response: TRUE when the
\* candidate is accepted, FALSE when load() goes on with the next one
CandidateAccepted(status, doc) ==
    IF status = 404 THEN FALSE
    ELSE IF status # 200 THEN FALSE
    ELSE Validate(Scan(doc, "A"))

NoError == 0
NoRead == [op |-> "none", raised |-> "no", value |-> 0]
Outcome(k, c) == [kind |-> k, cause |-> c]

\* mutant: the recorded transport error is ignored
RaiseAfterLoopNotFound(le) == Outcome("VideoNotFound", NoError)

\* after the loop: raise NetworkError(str(last_error)) or VideoNotFound
RaiseAfterLoop(le) ==
    IF le # NoError THEN Outcome("NetworkError", le) ELSE Outcome("VideoNotFound", NoError)

\* mutant: load() goes on with the next candidate after it accepted one
AfterAcceptContinue(i, n) == IF i < n THEN i + 1 ELSE 0

\* `return True` on acceptance: the index of the next candidate to request, 0
\* when the loop is left
AfterAccept(i, n) == 0

Cands == get_url_variants(video_id, full_url)

\* the answers the origin may give to candidate i
Answers(i) == IF site.known THEN {site.answers[i]} ELSE Classes

\* the variables load() never touches
LoadFrame ==
    /\ UNCHANGED <<video_id, full_url, site, memo, last_read, reads>>
    /\ UNCHANGED pluginVars
    /\ UNCHANGED parseVars
    /\ UNCHANGED textVars
    /\ UNCHANGED gatherVars

\* Video(video_id, session=..., full_url=...)
Construct ==
    /\ pc = "new"
    /\ LET vid == extract_video_id(identifier)
       IN IF vid = None
          THEN /\ result' = Outcome("InvalidURL", NoError)
               /\ pc' = "dead"
               /\ UNCHANGED video_id
          ELSE /\ video_id' = vid
               /\ pc' = "idle"
               /\ UNCHANGED result
    /\ UNCHANGED <<full_url, site, force, idx, inflight, fetched, last_error, loaded,
                   html, quality_urls, session, own_session, memo, last_read,
                   first_map, loads, reads>>
    /\ UNCHANGED pluginVars
    /\ UNCHANGED parseVars
    /\ UNCHANGED textVars
    /\ UNCHANGED gatherVars

\* load(force) up to its first suspension: `return True` on a loaded record, else
\* the session is made if there is none and the first candidate is requested
LoadBegin ==
    /\ pc = "idle"
    /\ loads < MaxLoads
    /\ loads' = loads + 1
    /\ \E f \in BOOLEAN :
        IF loaded /\ ~f
        THEN /\ result' = Outcome("ok", NoError)
             /\ UNCHANGED <<pc, force, idx, inflight, fetched, last_error, session,
                            own_session>>
        ELSE /\ force' = f
             /\ session' = IF session = "none" THEN "created" ELSE session
             /\ own_session' = IF session = "none" THEN "yes" ELSE "no"
             /\ last_error' = NoError
             /\ idx' = 1
             /\ inflight' = inflight \cup {Cands[1]}
             /\ fetched' = <<Cands[1]>>
             /\ result' = Outcome("none", NoError)
             /\ pc' = "response"
    /\ UNCHANGED <<loaded, html, quality_urls, first_map>>
    /\ LoadFrame

\* load() is left: its locals are gone
Leave(r) ==
    /\ pc' = "idle"
    /\ result' = r
    /\ inflight' = inflight \ {Cands[idx]}
    /\ idx' = 0
    /\ last_error' = NoError
    /\ force' = FALSE
    /\ UNCHANGED fetched

\* the request of candidate i is sent and awaited
RequestNext(i, le) ==
    /\ pc' = "response"
    /\ idx' = i
    /\ inflight' = (inflight \ {Cands[idx]}) \cup {Cands[i]}
    /\ fetched' = Append(fetched, Cands[i])
    /\ last_error' = le
    /\ UNCHANGED <<result, force>>

\* `continue`, and the end of the loop when this was the last candidate
Continue(le) ==
    /\ IF idx < Len(Cands) THEN RequestNext(idx + 1, le) ELSE Leave(RaiseAfterLoop(le))
    /\ UNCHANGED <<loaded, html, quality_urls, session, own_session, first_map, loads>>
    /\ LoadFrame

\* response.status == 404
Respond404 ==
    /\ pc = "response"
    /\ "404" \in Answers(idx)
    /\ Continue(last_error)

\* response.status != 200
RespondStatus ==
    /\ pc = "response"
    /\ "status" \in Answers(idx)
    /\ Continue(last_error)

\* except aiohttp.ClientError as e: last_error = e
RespondClientError ==
    /\ pc = "response"
    /\ "clienterror" \in Answers(idx)
    /\ Continue(idx)

\* an exception that is no aiohttp.ClientError leaves load()
RespondTimeout ==
    /\ pc = "response"
    /\ "timeout" \in Answers(idx)
    /\ Leave(Outcome("TimeoutError", idx))
    /\ UNCHANGED <<loaded, html, quality_urls, session, own_session, first_map, loads>>
    /\ LoadFrame

\* status 200: response.text() is awaited
Respond200 ==
    /\ pc = "response"
    /\ Answers(idx) \cap {"ok200", "bad200"} # {}
    /\ pc' = "text"
    /\ UNCHANGED <<force, idx, inflight, fetched, last_error, result, loaded, html,
                   quality_urls, session, own_session, first_map, loads>>
    /\ LoadFrame

\* the body fails a check, or shows no sign of a video page
TextRejected ==
    /\ pc = "text"
    /\ "bad200" \in Answers(idx)
    /\ \E b \in SiteBodies : ~Validate(b)
    /\ Continue(last_error)

\* the body is accepted: stored, parsed, return True
TextAccepted ==
    /\ pc = "text"
    /\ "ok200" \in Answers(idx)
    /\ \E b \in SiteBodies :
        /\ Validate(b)
        /\ html' = b
        /\ loaded' = TRUE
        /\ quality_urls' = parse_quality_urls(quality_urls, PageCaptures(b.page))
        /\ first_map' = IF first_map = NotRun THEN quality_urls' ELSE first_map
    /\ IF AfterAccept(idx, Len(Cands)) = 0
       THEN Leave(Outcome("ok", NoError))
       ELSE RequestNext(AfterAccept(idx, Len(Cands)), last_error)
    /\ UNCHANGED <<session, own_session, loads>>
    /\ LoadFrame

LoadStep ==
    \/ Construct
    \/ LoadBegin
    \/ Respond404
    \/ RespondStatus
    \/ RespondClientError
    \/ RespondTimeout
    \/ Respond200
    \/ TextRejected
    \/ TextAccepted

\* the arguments of Video(): <<video_id, full_url>>
VideoInputs ==
    { <<(<<"1">>), None>>,
      <<(<<"1">>), ROOT_URL \o S_video \o <<"1", "/">> >>,
      <<(<<"a">>), None>> }

NCands(in) ==
    IF extract_video_id(in[1]) = None THEN 0
    ELSE Len(get_url_variants(extract_video_id(in[1]), in[2]))

\* a Video made by Client.get_video (the client's session is handed in), on a
\* site whose answer to every candidate is fixed
Init ==
    /\ \E in \in VideoInputs :
        /\ identifier = in[1]
        /\ full_url = in[2]
        /\ \E a \in [1..NCands(in) -> Classes] : site = [known |-> TRUE, answers |-> a]
    /\ video_id = None
    /\ pc = "new"
    /\ force = FALSE /\ idx = 0 /\ inflight = {} /\ fetched = <<>>
    /\ last_error = NoError /\ result = Outcome("none", NoError)
    /\ loaded = FALSE /\ html = NoBody /\ quality_urls = <<>>
    /\ session = "supplied" /\ own_session = "unset"
    /\ memo = <<>> /\ last_read = NoRead /\ first_map = NotRun /\ loads = 0
    /\ reads = 0
    /\ url_cache = <<>> /\ parsed = NotParsed
    /\ ParseIdle
    /\ TextIdle
    /\ GatherIdle

Next == LoadStep

Spec == Init /\ [][Next]_vars

(***************************************************************************)
(* modules/utils.py: parse_duration, parse_view_count; Video.rating         *)
(***************************************************************************)
MaxTextLen == 4

\* str.upper()
UpperChar(c) ==
    IF \E k \in 1..Len(LowerLetters) : LowerLetters[k] = c
    THEN UpperLetters[CHOOSE k \in 1..Len(LowerLetters) : LowerLetters[k] = c]
    ELSE c
Upper(s) == [i \in 1..Len(s) |-> UpperChar(s[i])]

\* str.replace(c, '')
Without(s, c) == SelectSeq(s, LAMBDA x : x # c)

\* the positions of c in s
Positions(s, c) == {i \in 1..Len(s) : s[i] = c}

RECURSIVE Pow10(_)
Pow10(n) == IF n = 0 THEN 1 ELSE 10 * Pow10(n - 1)

\* what a call returns or raises
Value(v) == [raised |-> "no", value |-> v]
Raises(e) == [raised |-> e, value |-> 0]

\* mutant: minutes are counted as seconds
HmsFlat(h, m, s) == h * 3600 + m + s

\* hours * 3600 + minutes * 60 + seconds
Hms(h, m, s) == h * 3600 + m * 60 + s

\* (?:(\d+)X)? at position i, letters matched without case: the number and the
\* position after the group, or 0 and i when the group does not match
OptionalUnit(t, i, X) ==
    LET d == DigitRun(t, i)
    IN IF Len(d) > 0 /\ MatchAt(Upper(t), <<X>>, i + Len(d))
       THEN [n |-> ToInt(d), next |-> i + Len(d) + 1]
       ELSE [n |-> 0, next |-> i]

\* re.match(r'PT(?:(\d+)H)?(?:(\d+)M)?(?:(\d+)S)?', ..., re.IGNORECASE)
IsoMatches(t) == StartsWith(Upper(t), <<"P", "T">>)
IsoSeconds(t) ==
    LET h == OptionalUnit(t, 3, "H")
        m == OptionalUnit(t, h.next, "M")
        s == OptionalUnit(t, m.next, "S")
    IN Hms(h.n, m.n, s.n)

\* re.match(r'(\d+):(\d+)(?::(\d+))?', ...): the groups, <<>> without a match
TimeGroups(t) ==
    LET d1 == DigitRun(t, 1)
        d2 == DigitRun(t, Len(d1) + 2)
        d3 == DigitRun(t, Len(d1) + Len(d2) + 3)
    IN IF Len(d1) > 0 /\ MatchAt(t, <<":">>, Len(d1) + 1) /\ Len(d2) > 0
       THEN IF MatchAt(t, <<":">>, Len(d1) + Len(d2) + 2) /\ Len(d3) > 0
            THEN <<d1, d2, d3>>
            ELSE <<d1, d2>>
       ELSE <<>>

\* parse_duration
parse_duration(duration_str) ==
    LET t == Strip(duration_str)
        g == TimeGroups(t)
    IN IF Falsy(duration_str) THEN 0
       ELSE IF IsoMatches(t) THEN IsoSeconds(t)
       ELSE IF Len(g) = 3 THEN Hms(ToInt(g[1]), ToInt(g[2]), ToInt(g[3]))
       ELSE IF Len(g) = 2 THEN Hms(0, ToInt(g[1]), ToInt(g[2]))
       ELSE IF IsDigit(t) THEN ToInt(t)
       ELSE 0

\* float(s) of a str without whitespace: a decimal with optional sign, point
\* and exponent is the rational sign * num / den, "inf", "nan", or no number
\* ("bad": float raises ValueError)
Unsigned(s) == IF Len(s) > 0 /\ s[1] \in {"+", "-"} THEN Tail(s) ELSE s
Sign(s) == IF Len(s) > 0 /\ s[1] = "-" THEN -1 ELSE 1

Mantissa(m) ==
    LET dots == Positions(m, ".")
        p == IF dots = {} THEN Len(m) + 1 ELSE CHOOSE i \in dots : TRUE
        ip == SubSeq(m, 1, p - 1)
        fp == SubSeq(m, p + 1, Len(m))
    IN IF /\ Cardinality(dots) <= 1
          /\ Len(ip) + Len(fp) > 0
          /\ \A i \in 1..Len(ip) : ip[i] \in Digits
          /\ \A i \in 1..Len(fp) : fp[i] \in Digits
       THEN [kind |-> "num", num |-> ToInt(ip \o fp), den |-> Pow10(Len(fp))]
       ELSE [kind |-> "bad", num |-> 0, den |-> 1]

float(s) ==
    LET u == Upper(Unsigned(s))
        es == Positions(u, "E")
        e == IF es = {} THEN Len(u) + 1 ELSE CHOOSE i \in es : \A j \in es : i <= j
        m == Mantissa(SubSeq(u, 1, e - 1))
        x == SubSeq(u, e + 1, Len(u))
    IN IF u \in {<<"I","N","F">>, <<"I","N","F","I","N","I","T","Y">>}
       THEN [kind |-> "inf", num |-> Sign(s), den |-> 1]
       ELSE IF u = <<"N","A","N">> THEN [kind |-> "nan", num |-> 0, den |-> 1]
       ELSE IF es = {} THEN [m EXCEPT !.num = Sign(s) * m.num]
       ELSE IF m.kind = "num" /\ IsDigit(Unsigned(x))
            THEN IF Sign(x) = 1
                 THEN [kind |-> "num", num |-> Sign(s) * m.num * Pow10(ToInt(Unsigned(x))),
                       den |-> m.den]
                 ELSE [kind |-> "num", num |-> Sign(s) * m.num,
                       den |-> m.den * Pow10(ToInt(Unsigned(x)))]
       ELSE [kind |-> "bad", num |-> 0, den |-> 1]

\* int(x): truncation toward zero
Truncate(num, den) == IF num >= 0 THEN num \div den ELSE -((-num) \div den)

\* int(num / den * mult) for powers of ten den and mult
TruncateTimes(num, den, mult) ==
    IF mult >= den THEN num * (mult \div den) ELSE Truncate(num, den \div mult)

\* int(float(s) * mult) inside `try: ... except ValueError: return 0`
IntOfFloatTimes(s, mult) ==
    LET x == float(s)
    IN CASE x.kind = "num" -> Value(TruncateTimes(x.num, x.den, mult))
         [] x.kind = "inf" -> Raises("OverflowError")
         [] OTHER -> Value(0)

Multiplier(c) ==
    CASE c = "K" -> 1000
      [] c = "M" -> 1000000
      [] OTHER -> 1000000000

\* parse_view_count
parse_view_count(view_str) ==
    LET v == Without(Without(Upper(Strip(view_str)), ","), " ")
    IN IF Falsy(view_str) THEN Value(0)
       ELSE IF Len(v) > 0 /\ v[Len(v)] \in {"K", "M", "B"}
            THEN IntOfFloatTimes(SubSeq(v, 1, Len(v) - 1), Multiplier(v[Len(v)]))
       ELSE IntOfFloatTimes(v, 1)

\* int(s) of a str: an optional sign and digits, whitespace stripped
int(s) ==
    LET t == Strip(s)
    IN IF IsDigit(Unsigned(t)) THEN Value(Sign(t) * ToInt(Unsigned(t)))
       ELSE Raises("ValueError")

\* Video.likes, Video.dislikes: the flashvars value if int() takes it, else the
\* count the page patterns find (0 when they find none)
VoteCount(fv, found) ==
    IF ~Falsy(fv) /\ int(fv).raised = "no" THEN int(fv).value ELSE found

\* n / d rounded to the nearest integer, d # 0 (no tie arises in the model: a
\* tie of likes * 10000 / total needs a total that is a multiple of 32)
RoundDiv(n, d) ==
    IF d > 0 THEN (2 * n + d) \div (2 * d) ELSE (2 * (-n) + (-d)) \div (2 * (-d))

\* Video.rating in hundredths: round(likes / total * 100, 2), 0 when total is 0
Rating(l, d) == IF l + d = 0 THEN 0 ELSE RoundDiv(l * 10000, l + d)

\* the texts handed to parse_duration and to parse_view_count
DurationAlphabet == {"1", "5", ":", "P", "T", "M", "S"}
DurationExamples ==
    { <<"5",":","3","0">>, <<"1",":","2","3",":","4","5">>,
      <<"P","T","5","M","3","0","S">>, <<"4","5">>, <<"P","T","1","H">>,
      <<"p","t","1","h","5","m">>, <<" ","1",":","0","5"," ">>, <<"-","5">>,
      <<"P","T","1","H","3","0","S">>, <<>> }
CountAlphabet == {"1", "0", ",", ".", "K", "x"}
CountExamples ==
    { <<"1",",","2","3","4">>, <<"1",".","2","K">>, <<"1",".","5","M">>,
      <<"2",".","5","k">>, <<"1",".","5","B">>, <<"i","n","f">>, <<"n","a","n">>,
      <<"1","e","3">>, <<"-","5">>, <<" ","1","2"," ">>, <<"1",".","9">>,
      <<"I","n","f","i","n","i","t","y">>, <<"i","n","f","K">>, <<>> }

\* the flashvars value of likes or dislikes (None when absent), and the count
\* found in the page by the other patterns
VoteTexts == {None, <<"3">>, <<"0">>, <<"-","1">>, <<"x">>}
FoundCounts == {0, 2}

TextInputs ==
    [fn : {"parse_duration"}, arg : StringsUpTo(DurationAlphabet, MaxTextLen) \cup DurationExamples]
    \cup [fn : {"parse_view_count"}, arg : StringsUpTo(CountAlphabet, MaxTextLen) \cup CountExamples]
    \cup [fn : {"rating"}, arg : VoteTexts \X FoundCounts \X VoteTexts \X FoundCounts]

NotApplied == Raises("not applied")

InitText ==
    /\ text_in \in TextInputs
    /\ text_out = NotApplied
    /\ PluginIdle
    /\ VideoIdle
    /\ ParseIdle
    /\ GatherIdle

TextFrame ==
    /\ UNCHANGED text_in
    /\ UNCHANGED gatherVars
    /\ UNCHANGED pluginVars
    /\ UNCHANGED videoVars
    /\ UNCHANGED parseVars

\* parse_duration(text)
ParseDuration ==
    /\ text_in.fn = "parse_duration"
    /\ text_out = NotApplied
    /\ text_out' = Value(parse_duration(text_in.arg))
    /\ TextFrame

\* parse_view_count(text)
ParseViewCount ==
    /\ text_in.fn = "parse_view_count"
    /\ text_out = NotApplied
    /\ text_out' = parse_view_count(text_in.arg)
    /\ TextFrame

\* video.rating on a loaded record: likes and dislikes are read, then combined
VideoRating ==
    /\ text_in.fn = "rating"
    /\ text_out = NotApplied
    /\ text_out' = Value(Rating(VoteCount(text_in.arg[1], text_in.arg[2]),
                                VoteCount(text_in.arg[3], text_in.arg[4])))
    /\ TextFrame

NextText == ParseDuration \/ ParseViewCount \/ VideoRating

SpecText == InitText /\ [][NextText]_vars

(***************************************************************************)
(* modules/video.py: the checks of load() on one response                  *)
(***************************************************************************)
\* <<response.status, the fragments of the body, len(html_content)>>
CheckInputs ==
    [fn : {"load_check"}, arg : Statuses \X SeqsUpTo(Fragments, MaxFrags) \X Lengths]

InitCheck ==
    /\ text_in \in CheckInputs
    /\ text_out = NotApplied
    /\ GatherIdle
    /\ PluginIdle
    /\ VideoIdle
    /\ ParseIdle

\* one response goes through the checks of load()
CheckCandidate ==
    /\ text_in.fn = "load_check"
    /\ text_out = NotApplied
    /\ text_out' = Value(CandidateAccepted(text_in.arg[1], Doc(text_in.arg[2], text_in.arg[3])))
    /\ TextFrame

NextCheck == CheckCandidate

SpecCheck == InitCheck /\ [][NextCheck]_vars

(***************************************************************************)
(* modules/video.py: _get_url_variants on its own                          *)
(***************************************************************************)
MaxTail == 2

\* the origin a full URL is given on, <<>> for a path
Origins == {<<>>, ROOT_URL, <<"h","t","t","p",":","/","/","r","u","l","e","3","4","v","i","d","e","o",".","c","o","m">>}
PathHeads == {S_video, S_videos, <<"/","v","/">>}
VariantIds == {<<"1">>, <<"1","1">>}

\* what follows the id in a full path: nothing, or a slug that may itself be
\* named video or videos
PathTails ==
    {<<>>} \cup {S_slash \o t : t \in StringsUpTo({"a", "/"}, MaxTail)}
           \cup {S_videos, S_video, S_slash \o <<"a">> \o S_videos}

FullPaths == {o \o h \o id \o t : o \in Origins, h \in PathHeads, id \in VariantIds, t \in PathTails}

\* <<self._video_id, self._full_url>>
VariantInputs == [fn : {"_get_url_variants"}, arg : VariantIds \X (FullPaths \cup {None, <<>>})]

InitVariants ==
    /\ text_in \in VariantInputs
    /\ text_out = NotApplied
    /\ GatherIdle
    /\ PluginIdle
    /\ VideoIdle
    /\ ParseIdle

\* self._get_url_variants()
GetUrlVariants ==
    /\ text_in.fn = "_get_url_variants"
    /\ text_out = NotApplied
    /\ text_out' = Value(get_url_variants(text_in.arg[1], text_in.arg[2]))
    /\ TextFrame

NextVariants == GetUrlVariants

SpecVariants == InitVariants /\ [][NextVariants]_vars

(***************************************************************************)
(* modules/client.py: the listing extraction of Client.search and          *)
(* Client.get_videos_by_tag                                                *)
(***************************************************************************)
MaxLinks == 3
MaxShown == 2

\* A link of a listing page, by the way it is written:
\*   "relative"  href="/video/<id>/<slug>/"
\*   "plural"    href="/videos/<id>/<slug>"
\*   "absolute"  href="https://rule34video.com/video/<id>/<slug>/"
\*   "idpath"    <a href="/video/<id>/">
\*   "idonly"    "/video/<id>" outside an href
LinkKinds == {"relative", "plural", "absolute", "idpath", "idonly"}
LinkIds == {<<"1">>, <<"2">>, <<"3">>}
\* the ids the links of one page are about
PageIds == {<<"1">>, <<"2">>}
Links == [kind : LinkKinds, id : PageIds, slug : Slugs]

\* the link kinds each pattern of Client.search matches: the two href patterns
\* with a slug, the <a href> pattern, the id pattern
StrategyKinds ==
    << {"relative", "plural"}, {"relative", "plural", "absolute"},
       {"relative", "plural", "absolute", "idpath"}, LinkKinds >>

\* re.findall of strategy k on the page: its matches in page order
Matches(page, k) == SelectSeq(page, LAMBDA l : l.kind \in StrategyKinds[k])

\* str.replace(old, new, 1)
RECURSIVE ReplaceFirst(_, _, _)
ReplaceFirst(s, old, new) ==
    IF Len(s) = 0 THEN <<>>
    ELSE IF MatchAt(s, old, 1) THEN new \o SubSeq(s, Len(old) + 1, Len(s))
    ELSE <<s[1]>> \o ReplaceFirst(Tail(s), old, new)

\* the path a pattern captures from link l (for an absolute href: its path)
HrefPath(l) ==
    CASE l.kind = "plural" -> S_videos \o l.id \o S_slash \o l.slug
      [] l.kind \in {"relative", "absolute"} -> S_video \o l.id \o S_slash \o l.slug \o S_slash
      [] OTHER -> S_video \o l.id \o S_slash

WithSlash(path) == IF EndsWith(path, S_slash) THEN path ELSE path \o S_slash

\* normalized_path of the entry pattern k appends for link l. The loops of
\* Client.search (closing) append '/', those of get_videos_by_tag and
\* get_videos_by_category do not.
NormalizedPath(l, k, closing) ==
    LET p == HrefPath(l)
    IN CASE k = 4 -> S_video \o l.id \o S_slash
         [] k = 3 -> WithSlash(IF Contains(p, S_videos) THEN ReplaceFirst(p, S_videos, S_video)
                                ELSE p)
         [] OTHER -> LET n == IF StartsWith(p, S_videos) THEN ReplaceFirst(p, S_videos, S_video)
                              ELSE p
                     IN IF closing THEN WithSlash(n) ELSE n

\* the entry pattern k appends for link l
\* the slug pattern k captures for link l, None for the patterns without one
CapturedSlug(l, k) ==
    IF k >= 3 THEN None
    ELSE IF l.kind = "plural" THEN l.slug ELSE l.slug \o S_slash

Entry(l, k, closing) ==
    [video_id |-> l.id, url |-> ROOT_URL \o NormalizedPath(l, k, closing),
     full_path |-> NormalizedPath(l, k, closing),
     slug |-> IF CapturedSlug(l, k) = None THEN None ELSE RStrip(CapturedSlug(l, k), "/")]

\* mutant: an id is taken every time it is met
NotSeenNever(id, results) == TRUE

\* video_id not in seen_ids: seen_ids holds the ids of the entries appended
NotSeen(id, results) == \A i \in 1..Len(results) : results[i].video_id # id

\* the loop over the matches of one pattern; Client.search tests isdigit() of
\* the id and closes the path with '/' (checked), get_videos_by_tag and
\* get_videos_by_category do neither
RECURSIVE Collect(_, _, _, _, _)
Collect(ms, k, checked, max_results, results) ==
    IF Len(ms) = 0 THEN results
    ELSE IF /\ checked => IsDigit(ms[1].id)
            /\ NotSeen(ms[1].id, results)
            /\ Len(results) < max_results
         THEN Collect(Tail(ms), k, checked, max_results, Append(results, Entry(ms[1], k, checked)))
         ELSE Collect(Tail(ms), k, checked, max_results, results)

\* the extraction of Client.search: the next pattern is tried while there is no
\* result
RECURSIVE search_from(_, _, _)
search_from(page, max_results, k) ==
    LET r == Collect(Matches(page, k), k, TRUE, max_results, <<>>)
    IN IF Len(r) > 0 \/ k = Len(StrategyKinds) THEN r
       ELSE search_from(page, max_results, k + 1)

search(page, max_results) == search_from(page, max_results, 1)

\* the extraction of Client.get_videos_by_tag: the href pattern with a slug only
get_videos_by_tag(page, max_results) ==
    Collect(Matches(page, 1), 1, FALSE, max_results, <<>>)

\* the extraction of Client.get_videos_by_category: the same pattern and loop
get_videos_by_category(page, max_results) ==
    Collect(Matches(page, 1), 1, FALSE, max_results, <<>>)

\* result.get('slug', '').rstrip('/'): None has no rstrip
SlugOf(r) == IF r.slug = None THEN Raises("AttributeError") ELSE Value(RStrip(r.slug, "/"))

\* the line of result i: "<i>. <id>/<slug>", or "<i>. <id>" without a slug
Line(i, r) ==
    [n |-> i,
     text |-> IF Len(SlugOf(r).value) > 0 THEN r.video_id \o S_slash \o SlugOf(r).value
              ELSE r.video_id]

\* what a listing command answers for the results of Client.search: the
\* notice that nothing was found, the listing, or the message of its
\* `except Exception` when a line cannot be made
Reply(results) ==
    IF Len(results) = 0 THEN [kind |-> "nothing", lines |-> <<>>]
    ELSE IF \E i \in 1..Len(results) : SlugOf(results[i]).raised # "no"
         THEN [kind |-> "failed", lines |-> <<>>]
    ELSE [kind |-> "listing", lines |-> [i \in 1..Len(results) |-> Line(i, results[i])]]

Commands == {"cmd_search", "cmd_latest", "cmd_popular"}

SearchInputs ==
    [fn : {"search", "get_videos_by_tag", "get_videos_by_category"} \cup Commands,
     arg : SeqsUpTo(Links, MaxLinks) \X (0..MaxShown)]

InitSearch ==
    /\ text_in \in SearchInputs
    /\ text_out = NotApplied
    /\ PluginIdle
    /\ VideoIdle
    /\ ParseIdle
    /\ GatherIdle

\* Client.search on a fetched page
Search ==
    /\ text_in.fn = "search"
    /\ text_out = NotApplied
    /\ text_out' = Value(search(text_in.arg[1], text_in.arg[2]))
    /\ TextFrame

\* Client.get_videos_by_tag on a fetched page
GetVideosByTag ==
    /\ text_in.fn = "get_videos_by_tag"
    /\ text_out = NotApplied
    /\ text_out' = Value(get_videos_by_tag(text_in.arg[1], text_in.arg[2]))
    /\ TextFrame

\* Client.get_videos_by_category on a fetched page
GetVideosByCategory ==
    /\ text_in.fn = "get_videos_by_category"
    /\ text_out = NotApplied
    /\ text_out' = Value(get_videos_by_category(text_in.arg[1], text_in.arg[2]))
    /\ TextFrame

\* a listing command from the page search() fetched on: the results are
\* cached, then rendered
CmdListing(cmd) ==
    /\ text_in.fn = cmd
    /\ text_out = NotApplied
    /\ LET results == search(text_in.arg[1], text_in.arg[2])
       IN /\ url_cache' = cache_search_results(url_cache, results)
          /\ text_out' = Value(Reply(results))
    /\ UNCHANGED <<identifier, parsed, text_in>>
    /\ UNCHANGED gatherVars
    /\ UNCHANGED videoVars
    /\ UNCHANGED parseVars

CmdSearch == CmdListing("cmd_search")
CmdLatest == CmdListing("cmd_latest")
CmdPopular == CmdListing("cmd_popular")

NextSearch ==
    Search \/ GetVideosByTag \/ GetVideosByCategory \/ CmdSearch \/ CmdLatest \/ CmdPopular

SpecSearch == InitSearch /\ [][NextSearch]_vars

(***************************************************************************)
(* modules/client.py: Client.search_videos                                 *)
(***************************************************************************)
MaxListed == 3

\* how the get_video of one entry ends: the record is loaded, or load() raises
LoadOutcomes == {"ok", "VideoNotFound", "NetworkError", "TimeoutError"}

\* isinstance(video_or_error, Exception)
IsException(o) == o \in {"VideoNotFound", "NetworkError", "TimeoutError"}

\* the results of Client.search: entries of distinct ids
Listings ==
    { [i \in 1..Len(l) |-> BareEntry(l[i])] :
        l \in { q \in SeqsUpTo(LinkIds, MaxListed) :
                  \A i, j \in 1..Len(q) : i # j => q[i] # q[j] } }

\* <<results, the end of the get_video of each entry, load_details>>
GatherInputs ==
    [fn : {"search_videos"},
     arg : UNION { {l} \X [1..Len(l) -> LoadOutcomes] \X BOOLEAN : l \in Listings }]

\* mutant: gather without return_exceptions hands the first exception on as soon
\* as a task raises it
GatheredFailFast(ts) ==
    IF \E i \in 1..Len(ts) : IsException(ts[i])
    THEN [done |-> TRUE, raised |-> ts[CHOOSE i \in 1..Len(ts) : IsException(ts[i])]]
    ELSE [done |-> \A i \in 1..Len(ts) : ts[i] # "pending", raised |-> "no"]

\* asyncio.gather(*tasks, return_exceptions=True): over when every task is
\* over, exceptions are results
Gathered(ts) == [done |-> \A i \in 1..Len(ts) : ts[i] # "pending", raised |-> "no"]

\* the Video a finished get_video returns
Record(entry) == [video_id |-> entry.video_id, loaded |-> TRUE]

\* the loop over zip(results, completed)
RECURSIVE Videos(_, _)
Videos(results, completed) ==
    IF Len(results) = 0 THEN <<>>
    ELSE IF IsException(completed[1])
         THEN Videos(Tail(results), Tail(completed))
         ELSE <<Record(results[1])>> \o Videos(Tail(results), Tail(completed))

RECURSIVE Warned(_, _)
Warned(results, completed) ==
    IF Len(results) = 0 THEN <<>>
    ELSE IF IsException(completed[1])
         THEN <<results[1].video_id>> \o Warned(Tail(results), Tail(completed))
         ELSE Warned(Tail(results), Tail(completed))

InitGather ==
    /\ text_in \in GatherInputs
    /\ text_out = NotApplied
    /\ GatherIdle
    /\ PluginIdle
    /\ VideoIdle
    /\ ParseIdle

GatherFrame ==
    /\ UNCHANGED text_in
    /\ UNCHANGED pluginVars
    /\ UNCHANGED videoVars
    /\ UNCHANGED parseVars

\* search_videos up to its return without load_details, else up to the await of
\* gather: one get_video task for each entry
SearchVideosBegin ==
    /\ text_in.fn = "search_videos"
    /\ search_pc = "idle"
    /\ IF text_in.arg[3]
       THEN /\ tasks' = [i \in 1..Len(text_in.arg[1]) |-> "pending"]
            /\ search_pc' = "gather"
            /\ UNCHANGED text_out
       ELSE /\ text_out' = Value(text_in.arg[1])
            /\ search_pc' = "done"
            /\ UNCHANGED tasks
    /\ UNCHANGED warnings
    /\ GatherFrame

\* the get_video of one entry returns its record
TaskLoads ==
    /\ search_pc = "gather"
    /\ \E i \in 1..Len(tasks) :
        /\ tasks[i] = "pending"
        /\ text_in.arg[2][i] = "ok"
        /\ tasks' = [tasks EXCEPT ![i] = "ok"]
    /\ UNCHANGED <<search_pc, warnings, text_out>>
    /\ GatherFrame

\* the get_video of one entry raises
TaskFails ==
    /\ search_pc = "gather"
    /\ \E i \in 1..Len(tasks) :
        /\ tasks[i] = "pending"
        /\ IsException(text_in.arg[2][i])
        /\ tasks' = [tasks EXCEPT ![i] = text_in.arg[2][i]]
    /\ UNCHANGED <<search_pc, warnings, text_out>>
    /\ GatherFrame

\* gather is over: the loop over its results, and the return
SearchVideosEnd ==
    /\ search_pc = "gather"
    /\ Gathered(tasks).done
    /\ IF Gathered(tasks).raised # "no"
       THEN /\ text_out' = Raises(Gathered(tasks).raised)
            /\ UNCHANGED warnings
       ELSE /\ text_out' = Value(Videos(text_in.arg[1], tasks))
            /\ warnings' = Warned(text_in.arg[1], tasks)
    /\ search_pc' = "done"
    /\ UNCHANGED tasks
    /\ GatherFrame

NextGather == SearchVideosBegin \/ TaskLoads \/ TaskFails \/ SearchVideosEnd

SpecGather == InitGather /\ [][NextGather]_vars

(***************************************************************************)
(* modules/utils.py: select_best_quality on its own                        *)
(***************************************************************************)
MaxLabels == 3

\* labels a quality map may hold: two of them of resolution 720, one without
\* digits
LabelPool ==
    {L_1080p, L_720p, L_480p, L_360p, L_default, <<"H","D"," ","7","2","0">>}

\* the keys of a map: distinct labels in insertion order
LabelLists ==
    {ls \in SeqsUpTo(LabelPool, MaxLabels) : \A i, j \in 1..Len(ls) : i # j => ls[i] # ls[j]}

\* requests for a resolution and for the middle of the ranking
Targets ==
    { L_720p, <<"7","2","0">>, <<"9","0","0">>, <<"2","4","0">>, <<"4","8","0","P">>,
      <<" ","1","0","8","0"," ">>, <<"4","k">>, L_half, <<"m","e","d","i","u","m">>,
      <<"M","i","d">> }

SelectInputs == [fn : {"select_best_quality"}, arg : LabelLists \X Targets]

InitSelect ==
    /\ text_in \in SelectInputs
    /\ text_out = NotApplied
    /\ GatherIdle
    /\ PluginIdle
    /\ VideoIdle
    /\ ParseIdle

\* select_best_quality(available_qualities, target)
SelectBestQuality ==
    /\ text_in.fn = "select_best_quality"
    /\ text_out = NotApplied
    /\ text_out' = Value(select_best_quality(text_in.arg[1], text_in.arg[2]))
    /\ TextFrame

NextSelect == SelectBestQuality

SpecSelect == InitSelect /\ [][NextSelect]_vars

(***************************************************************************)
(* modules/video.py: the field cascades of duration, thumbnail, views,     *)
(* upload_date and uploader                                                *)
(***************************************************************************)
\* re.sub(r'\s+', ' ', text).strip() of clean_text, for a text without entities
\* and tags
RECURSIVE CollapseSpaces(_)
CollapseSpaces(s) ==
    IF Len(s) < 2 THEN s
    ELSE IF s[1] = " " /\ s[2] = " " THEN CollapseSpaces(Tail(s))
    ELSE <<s[1]>> \o CollapseSpaces(Tail(s))

clean_text(text) == IF Falsy(text) THEN <<>> ELSE Strip(CollapseSpaces(text))

\* '//host/..' gets the scheme, '/path' the site origin
FixUrl(url) ==
    IF StartsWith(url, <<"/","/">>) THEN S_https_colon \o url
    ELSE IF StartsWith(url, S_slash) THEN ROOT_URL \o url
    ELSE url

\* date_str and not date_str.lower().startswith('by')
DateLike(d) == d # <<>> /\ ~StartsWith(Lower(d), <<"b","y">>)

\* The strategies of each accessor in the order the code tries them, each with
\* the kind of place it reads: the flashvars block, a <meta> tag, an element
\* (class or attribute), or a pattern over the whole text.
Strategy(n, k) == [name |-> n, kind |-> k]
Cascade(fn) ==
    CASE fn = "duration" ->
           << Strategy("meta", "meta"), Strategy("span", "class"), Strategy("alt", "text"),
              Strategy("text", "text"), Strategy("flashvars", "flashvars") >>
      [] fn = "thumbnail" ->
           << Strategy("og", "meta"), Strategy("poster", "class"), Strategy("preview", "text"),
              Strategy("preview_fv", "flashvars"), Strategy("flashvars", "flashvars") >>
      [] fn = "views" ->
           << Strategy("flashvars", "flashvars"), Strategy("data", "class"),
              Strategy("meta", "meta"), Strategy("span", "class"), Strategy("div", "class"),
              Strategy("text", "text") >>
      [] fn = "upload_date" ->
           << Strategy("flashvars", "flashvars"), Strategy("meta", "meta"),
              Strategy("text", "text") >>
      [] OTHER ->
           << Strategy("link", "class"), Strategy("span", "class"), Strategy("alt", "text"),
              Strategy("flashvars", "flashvars") >>

\* the documented default of an accessor
Default(fn) == IF fn \in {"duration", "views"} THEN 0 ELSE None

Return(out) == [returns |-> TRUE, out |-> out]
GoOn == [returns |-> FALSE, out |-> Value(0)]

\* One strategy on its capture c (a str): whether the accessor returns here, and
\* with what.
Try(fn, name, c) ==
    CASE fn = "duration" ->
           IF name = "alt"
           THEN IF int(c).raised = "no" THEN Return(int(c)) ELSE GoOn
           ELSE IF name = "flashvars" THEN Return(int(c))
           ELSE Return(Value(parse_duration(c)))
      [] fn = "thumbnail" ->
           IF Falsy(c) THEN GoOn ELSE Return(Value(FixUrl(c)))
      [] fn = "views" ->
           IF name = "flashvars"
           THEN IF ~Falsy(c) /\ int(c).raised = "no" THEN Return(int(c)) ELSE GoOn
           ELSE IF parse_view_count(c).raised # "no" THEN Return(parse_view_count(c))
           ELSE IF parse_view_count(c).value > 0 THEN Return(parse_view_count(c))
           ELSE GoOn
      [] fn = "upload_date" ->
           IF name = "flashvars"
           THEN IF DateLike(clean_text(c)) THEN Return(Value(clean_text(c))) ELSE GoOn
           ELSE IF name = "meta"
           THEN IF DateLike(clean_text(c)) /\ Len(clean_text(c)) > 4
                THEN Return(Value(clean_text(c))) ELSE GoOn
           ELSE Return(Value(c))
      [] OTHER ->
           IF name = "flashvars" THEN Return(Value(clean_text(c)))
           ELSE IF clean_text(c) # <<>> THEN Return(Value(clean_text(c)))
           ELSE GoOn

\* the accessor: the strategies from the k-th on, on a page given by what each
\* pattern captures in it (None when it does not match)
RECURSIVE RunCascade(_, _, _)
RunCascade(fn, page, k) ==
    IF k > Len(Cascade(fn)) THEN Value(Default(fn))
    ELSE LET s == Cascade(fn)[k]
         IN IF page[s.name] # None /\ Try(fn, s.name, page[s.name]).returns
            THEN Try(fn, s.name, page[s.name]).out
            ELSE RunCascade(fn, page, k + 1)

\* pages: the capture of each pattern. A pattern over the whole text also
\* matches what a narrower pattern matches.
DurationPages ==
    { p \in [meta : {None, <<"P","T","1","M">>, <<"x">>}, span : {None, <<"1",":","0","5">>, <<"x">>}, alt : {None, <<"9","0">>, <<"1","2","0">>}, text : {None, <<"1",":","0","5">>, <<"2",":","0","0">>}, flashvars : {None, <<"1","2","0">>}] :
        /\ p.flashvars # None => p.alt # None
        /\ p.span = <<"1",":","0","5">> => p.text # None }
ThumbnailPages ==
    { p \in [og : {None, <<"/","/","a","/","t",".","j","p","g">>}, poster : {None, <<"/","p",".","j","p","g">>}, preview : {None, <<"h","t","t","p",":","/","/","a","/","v",".","j","p","g">>}, preview_fv : {None, <<"h","t","t","p",":","/","/","a","/","v",".","j","p","g">>}, flashvars : {None, <<"h","t","t","p",":","/","/","b","/","f",".","j","p","g">>}] :
        p.preview_fv # None => p.preview # None }
ViewsPages ==
    [flashvars : {None, <<"7">>, <<"0">>, <<"1",",","2">>}, data : {None, <<"5">>, <<"0">>}, meta : {None, <<"6">>}, span : {None, <<"1",",","2","3","4">>, <<"0">>}, div : {None, <<"8">>}, text : {None, <<"9">>}]
DatePages ==
    { p \in [flashvars : {None, <<"2","0","2","4","-","0","1","-","1","5">>, <<"b","y"," ","x">>, <<" ">>}, meta : {None, <<"2","0","2","4","-","0","2","-","0","1">>, <<"2","0","2","4">>}, text : {None, <<"2","0","2","4","-","0","2","-","0","1">>, <<"2","0","2","3","-","0","3","-","0","3">>}] : p.meta = <<"2","0","2","4","-","0","2","-","0","1">> => p.text # None }
UploaderPages ==
    [link : {None, <<"B","o","b">>, <<" ">>}, span : {None, <<"A","l">>}, alt : {None, <<"C","y">>}, flashvars : {None, <<"D","i">>, <<" ">>}]

FieldInputs ==
    [fn : {"duration"}, arg : DurationPages]
    \cup [fn : {"thumbnail"}, arg : ThumbnailPages]
    \cup [fn : {"views"}, arg : ViewsPages]
    \cup [fn : {"upload_date"}, arg : DatePages]
    \cup [fn : {"uploader"}, arg : UploaderPages]

InitFields ==
    /\ text_in \in FieldInputs
    /\ text_out = NotApplied
    /\ GatherIdle
    /\ PluginIdle
    /\ VideoIdle
    /\ ParseIdle

\* the first read of a cached property of a loaded record
ReadCascade ==
    /\ text_in \in FieldInputs
    /\ text_out = NotApplied
    /\ text_out' = RunCascade(text_in.fn, text_in.arg, 1)
    /\ TextFrame

NextFields == ReadCascade

SpecFields == InitFields /\ [][NextFields]_vars

(***************************************************************************)
(* modules/video.py: the counts read from the flashvars block              *)
(***************************************************************************)
MaxVars == 2

Quotes == {"'", "\""}

\* the first position from j on that holds no whitespace (regex \s*)
RECURSIVE SkipSpaces(_, _)
SkipSpaces(s, j) == IF j <= Len(s) /\ s[j] = " " THEN SkipSpaces(s, j + 1) ELSE j

\* the longest run of characters other than quotes that starts at j ([^'"]+)
RECURSIVE NonQuoteRun(_, _)
NonQuoteRun(s, j) ==
    IF j <= Len(s) /\ s[j] \notin Quotes THEN <<s[j]>> \o NonQuoteRun(s, j + 1) ELSE <<>>

\* where the value starts when key\s*:\s* matches at i without case, else 0
AfterKey(s, key, i) ==
    LET a == SkipSpaces(s, i + Len(key))
    IN IF MatchAt(Lower(s), Lower(key), i) /\ MatchAt(s, <<":">>, a)
       THEN SkipSpaces(s, a + 1) ELSE 0

\* group 1 of key\s*:\s*['"]([^'"]+)['"] matched at i, or None
QuotedAt(s, key, i) ==
    LET b == AfterKey(s, key, i)
        run == NonQuoteRun(s, b + 1)
    IN IF /\ b > 0 /\ b <= Len(s) /\ s[b] \in Quotes
          /\ Len(run) > 0
          /\ b + Len(run) + 1 <= Len(s)
       THEN run ELSE None

\* group 1 of key\s*:\s*(\d+) matched at i, or None
BareAt(s, key, i) ==
    LET b == AfterKey(s, key, i)
    IN IF b > 0 /\ Len(DigitRun(s, b)) > 0 THEN DigitRun(s, b) ELSE None

\* re.search(pattern, flashvars, re.IGNORECASE): group 1 of the leftmost match
FlashSearch(s, key, quoted) ==
    LET at(i) == IF quoted THEN QuotedAt(s, key, i) ELSE BareAt(s, key, i)
        hits == {i \in 1..Len(s) : at(i) # None}
    IN IF hits = {} THEN None
       ELSE at(CHOOSE i \in hits : \A k \in hits : i <= k)

\* _get_flashvar_value on the block flashvars (None when the page has none)
get_flashvar_value(flashvars, key) ==
    IF Falsy(flashvars) THEN None
    ELSE IF FlashSearch(flashvars, key, TRUE) # None THEN FlashSearch(flashvars, key, TRUE)
    ELSE FlashSearch(flashvars, key, FALSE)

K_likes == <<"l","i","k","e","s">>
K_dislikes == <<"d","i","s","l","i","k","e","s">>
K_views == <<"v","i","e","w","s">>

\* one `key: value` of the block: quoted or a bare number
FlashEntries ==
    [key : {K_likes, K_dislikes, K_views}, value : {<<"1","0">>, <<"3">>}, quoted : BOOLEAN]

EntryText(e) ==
    e.key \o <<":", " ">> \o (IF e.quoted THEN <<"'">> \o e.value \o <<"'">> ELSE e.value)

RECURSIVE BlockText(_)
BlockText(es) ==
    IF Len(es) = 0 THEN <<" ">>
    ELSE <<" ">> \o EntryText(es[1]) \o (IF Len(es) > 1 THEN <<",">> ELSE <<>>)
         \o BlockText(Tail(es))

\* the blocks of up to MaxVars entries, no key twice
FlashBlocks ==
    {es \in SeqsUpTo(FlashEntries, MaxVars) :
        \A i, j \in 1..Len(es) : es[i].key = es[j].key => i = j}

\* Video.likes / Video.dislikes on a page that holds the block and nothing
\* else the page patterns match
FlashCount(block, key) == VoteCount(get_flashvar_value(block, key), 0)

FlashInputs == [fn : {"likes", "dislikes"}, arg : FlashBlocks]

InitFlash ==
    /\ text_in \in FlashInputs
    /\ text_out = NotApplied
    /\ PluginIdle
    /\ VideoIdle
    /\ ParseIdle
    /\ GatherIdle

\* Video.likes on a loaded record
ReadLikes ==
    /\ text_in.fn = "likes"
    /\ text_out = NotApplied
    /\ text_out' = Value(FlashCount(BlockText(text_in.arg), K_likes))
    /\ TextFrame

\* Video.dislikes on a loaded record
ReadDislikes ==
    /\ text_in.fn = "dislikes"
    /\ text_out = NotApplied
    /\ text_out' = Value(FlashCount(BlockText(text_in.arg), K_dislikes))
    /\ TextFrame

NextFlash == ReadLikes \/ ReadDislikes

SpecFlash == InitFlash /\ [][NextFlash]_vars

(***************************************************************************)
(* modules/video.py: the accessors of a record                             *)
(***************************************************************************)
MaxReads == 1

\* the cached_property fields
Fields == {"title", "thumbnail", "duration", "views", "likes", "dislikes", "rating",
           "upload_date", "uploader", "tags", "categories"}

\* the vote counts each page shows
PageLikes(page) == IF page = "A" THEN 3 ELSE 0
PageDislikes(page) == IF page = "A" THEN 1 ELSE 0

\* what the cascade of field f extracts from body b
FieldValue(f, b) ==
    CASE f = "likes" -> PageLikes(b.page)
      [] f = "dislikes" -> PageDislikes(b.page)
      [] OTHER -> <<f, b.page>>

\* mutant: the guard is missing
EnsureLoadedAlways(l) == TRUE

\* _ensure_loaded: passes when self._loaded
EnsureLoaded(l) == l

MemoHas(m, f) == f \in DOMAIN m
MemoPut(m, f, v) == [k \in DOMAIN m \cup {f} |-> IF k = f THEN v ELSE m[k]]

\* a cached_property other than rating is read on a loaded record
ReadPlain(m, f) == IF MemoHas(m, f) THEN m ELSE MemoPut(m, f, FieldValue(f, html))

\* rating reads likes and dislikes, themselves cached
ReadRating(m) ==
    LET m2 == ReadPlain(ReadPlain(m, "likes"), "dislikes")
    IN IF MemoHas(m, "rating") THEN m
       ELSE MemoPut(m2, "rating", Rating(m2["likes"], m2["dislikes"]))

ReadMemo(m, f) == IF f = "rating" THEN ReadRating(m) ELSE ReadPlain(m, f)

\* the first _ensure_loaded a read of f runs into, if any, raises
ReadRaises(m, f) ==
    IF MemoHas(m, f) THEN "no"
    ELSE IF f = "rating" /\ MemoHas(m, "likes") /\ MemoHas(m, "dislikes") THEN "no"
    ELSE IF ~EnsureLoaded(loaded) THEN "unloaded"
    ELSE IF html = NoBody THEN "TypeError"
    ELSE "no"

Returned(op, v) == [op |-> op, raised |-> "no", value |-> v]
Raised(op, e) == [op |-> op, raised |-> e, value |-> 0]

\* video.<field>
ReadField ==
    /\ pc \in {"idle", "response", "text"}
    /\ reads < MaxReads
    /\ reads' = reads + 1
    /\ \E f \in Fields :
        IF ReadRaises(memo, f) # "no"
        THEN /\ last_read' = Raised(f, ReadRaises(memo, f))
             /\ UNCHANGED memo
        ELSE /\ memo' = ReadMemo(memo, f)
             /\ last_read' = Returned(f, memo'[f])
    /\ UNCHANGED <<video_id, full_url, site, pc, force, idx, inflight, fetched,
                   last_error, result, loaded, html, quality_urls, session,
                   own_session, first_map, loads>>
    /\ UNCHANGED pluginVars
    /\ UNCHANGED parseVars
    /\ UNCHANGED textVars
    /\ UNCHANGED gatherVars

\* video.available_qualities
AvailableQualities ==
    /\ pc \in {"idle", "response", "text"}
    /\ reads < MaxReads
    /\ reads' = reads + 1
    /\ last_read' = IF EnsureLoaded(loaded)
                    THEN Returned("available_qualities", Keys(quality_urls))
                    ELSE Raised("available_qualities", "unloaded")
    /\ UNCHANGED <<video_id, full_url, site, pc, force, idx, inflight, fetched,
                   last_error, result, loaded, html, quality_urls, session,
                   own_session, memo, first_map, loads>>
    /\ UNCHANGED pluginVars
    /\ UNCHANGED parseVars
    /\ UNCHANGED textVars
    /\ UNCHANGED gatherVars

\* video.get_video_url(quality)
GetVideoUrl ==
    /\ pc \in {"idle", "response", "text"}
    /\ reads < MaxReads
    /\ reads' = reads + 1
    /\ \E q \in Requests :
        last_read' = IF EnsureLoaded(loaded)
                     THEN Returned("get_video_url", get_video_url(quality_urls, q))
                     ELSE Raised("get_video_url", "unloaded")
    /\ UNCHANGED <<video_id, full_url, site, pc, force, idx, inflight, fetched,
                   last_error, result, loaded, html, quality_urls, session,
                   own_session, memo, first_map, loads>>
    /\ UNCHANGED pluginVars
    /\ UNCHANGED parseVars
    /\ UNCHANGED textVars
    /\ UNCHANGED gatherVars

RECURSIVE ReadAll(_, _)
ReadAll(m, fs) ==
    IF fs = {} THEN m
    ELSE LET f == CHOOSE x \in fs : TRUE
         IN ReadAll(ReadMemo(m, f), fs \ {f})

\* video.to_dict(): every field is read, and so cached
ToDict ==
    /\ pc \in {"idle", "response", "text"}
    /\ reads < MaxReads
    /\ reads' = reads + 1
    /\ IF ~EnsureLoaded(loaded)
       THEN /\ last_read' = Raised("to_dict", "unloaded")
            /\ UNCHANGED memo
       ELSE IF html = NoBody
       THEN /\ last_read' = Raised("to_dict", "TypeError")
            /\ UNCHANGED memo
       ELSE /\ memo' = ReadAll(memo, Fields)
            /\ last_read' = Returned("to_dict", memo')
    /\ UNCHANGED <<video_id, full_url, site, pc, force, idx, inflight, fetched,
                   last_error, result, loaded, html, quality_urls, session,
                   own_session, first_map, loads>>
    /\ UNCHANGED pluginVars
    /\ UNCHANGED parseVars
    /\ UNCHANGED textVars
    /\ UNCHANGED gatherVars

RecordInputs == { <<(<<"1">>), None>>, <<(<<"a">>), None>> }

\* a Video made by the caller, with or without a session, on a site about which
\* nothing is assumed
InitRecord ==
    /\ \E in \in RecordInputs : identifier = in[1] /\ full_url = in[2]
    /\ site = [known |-> FALSE, answers |-> <<>>]
    /\ session \in {"none", "supplied"}
    /\ video_id = None
    /\ pc = "new"
    /\ force = FALSE /\ idx = 0 /\ inflight = {} /\ fetched = <<>>
    /\ last_error = NoError /\ result = Outcome("none", NoError)
    /\ loaded = FALSE /\ html = NoBody /\ quality_urls = <<>>
    /\ own_session = "unset"
    /\ memo = <<>> /\ last_read = NoRead /\ first_map = NotRun /\ loads = 0
    /\ reads = 0
    /\ url_cache = <<>> /\ parsed = NotParsed
    /\ ParseIdle
    /\ TextIdle
    /\ GatherIdle

NextRecord == LoadStep \/ ReadField \/ AvailableQualities \/ GetVideoUrl \/ ToDict

SpecRecord == InitRecord /\ [][NextRecord]_vars

(***************************************************************************)
(* modules/video.py: cancellation of load() and close()                    *)
(***************************************************************************)
\* the task that runs load() is cancelled while it waits for the response or
\* for its text: CancelledError is no aiohttp.ClientError, the `async with`
\* releases the response and load() is left
Cancel ==
    /\ pc \in {"response", "text"}
    /\ Leave(Outcome("CancelledError", NoError))
    /\ UNCHANGED <<loaded, html, quality_urls, session, own_session, first_map, loads>>
    /\ LoadFrame

\* close() closes the session and forgets it when hasattr(self, '_own_session')
\* and self._own_session and self._session
Closes(own, s) == own = "yes" /\ s # "none"

\* Video.close(), called when no load() is running; the record is not used
\* again
Close ==
    /\ pc = "idle"
    /\ pc' = "closed"
    /\ session' = IF Closes(own_session, session) THEN "none" ELSE session
    /\ UNCHANGED <<force, idx, inflight, fetched, last_error, result, loaded, html,
                   quality_urls, own_session, first_map, loads>>
    /\ LoadFrame

NextLife == LoadStep \/ Cancel \/ Close

\* a Video made with or without a session, loaded and reloaded on a site that
\* may answer each request in any way, and closed
SpecLife == InitRecord /\ [][NextLife]_vars

(***************************************************************************)
(* Properties of the candidate list                                        *)
(***************************************************************************)
\* s is <digits>/<slug>/ with a non-empty slug that holds no slash
DigitsSlugForm(s) ==
    \E i \in 2..(Len(s) - 2) :
        /\ IsDigit(SubSeq(s, 1, i - 1))
        /\ s[i] = "/"
        /\ s[Len(s)] = "/"
        /\ \A j \in (i + 1)..(Len(s) - 1) : s[j] # "/"

Resolved == parsed.error # "unparsed"

\* C6: for every identifier <digits>/<slug>/ the resolver accepts the identifier
\* and the first candidate URL is ROOT_URL + "/video/" + digits + "/" + slug + "/"
C6_FirstCandidateIsSlugUrl ==
    (Resolved /\ DigitsSlugForm(identifier)) =>
        /\ parsed.error = "none"
        /\ Len(parsed.variants) > 0
        /\ parsed.variants[1] = ROOT_URL \o <<"/","v","i","d","e","o","/">> \o identifier

C6_Witness ==
    /\ Resolved
    /\ DigitsSlugForm(identifier)
    /\ Len(parsed.variants) = 6
    /\ url_cache # <<>>

\* the four id-only URLs, written out
FourIdOnlyUrls(id) ==
    { ROOT_URL \o <<"/","v","i","d","e","o","/">> \o id \o <<"/">>,
      ROOT_URL \o <<"/","v","i","d","e","o","s","/">> \o id \o <<"/">>,
      ROOT_URL \o <<"/","v","i","d","e","o","/">> \o id,
      ROOT_URL \o <<"/","v","i","d","e","o","s","/">> \o id }

ExactlyFourFallbacks(vs, id) ==
    /\ Len(vs) = 4
    /\ {vs[i] : i \in 1..Len(vs)} = FourIdOnlyUrls(id)

\* C7 as stated: for every bare-digit identifier the candidate list is exactly the
\* four id-only fallback URLs
C7_Original ==
    (Resolved /\ IsDigit(identifier)) =>
        ExactlyFourFallbacks(parsed.variants, identifier)

\* C7 amended: for every bare-digit identifier for which the id -> URL cache holds
\* no URL (no full URL is known), the candidate list is exactly the four id-only
\* fallback URLs and holds no slug-qualified URL
C7_FourFallbacksWhenNoKnownUrl ==
    (Resolved /\ IsDigit(identifier) /\ parsed.full_url = None) =>
        ExactlyFourFallbacks(parsed.variants, identifier)

C7_Witness ==
    /\ Resolved
    /\ IsDigit(identifier)
    /\ parsed.full_url = None
    /\ Len(parsed.variants) = 4
    /\ url_cache # <<>>

(***************************************************************************)
(* Properties of Video.load                                                *)
(***************************************************************************)
Constructed == pc \in {"idle", "response", "text"}

\* a call of load() has returned or raised
Finished == pc = "idle" /\ result.kind # "none"

Rejecting == {"404", "status", "clienterror", "bad200"}

\* every candidate answers in a way load() rejects
AllRejected == \A i \in 1..Len(Cands) : site.answers[i] \in Rejecting

\* the candidates that raise an aiohttp.ClientError when requested
Failing == {i \in 1..Len(Cands) : site.answers[i] = "clienterror"}

Last(S) == CHOOSE i \in S : \A j \in S : j <= i

\* C1: during load() at most one request is in flight, the URLs fetched so far
\* are the candidate list up to the one being tried, no candidate is fetched
\* after one that is accepted, and a load that succeeds stops at the accepted
\* candidate
C1_SequentialPrefix ==
    Constructed =>
        /\ Cardinality(inflight) <= 1
        /\ Len(fetched) <= Len(Cands)
        /\ fetched = SubSeq(Cands, 1, Len(fetched))
        /\ \A j \in 1..(Len(fetched) - 1) : site.answers[j] # "ok200"
        /\ (Finished /\ result.kind = "ok") => site.answers[Len(fetched)] = "ok200"
        /\ pc \in {"response", "text"} => inflight = {Cands[Len(fetched)]}

C1_Witness ==
    /\ Finished
    /\ result.kind = "ok"
    /\ Len(Cands) = 4
    /\ Len(fetched) = 2
    /\ site.answers[3] = "ok200"
    /\ inflight = {}

\* C2, as claimed: when some candidate answers 200 with a body that passes the
\* checks, load() returns a loaded record whatever the candidates before it did
C2_AnyAcceptableCandidateLoads ==
    (Constructed /\ Finished /\ \E i \in 1..Len(Cands) : site.answers[i] = "ok200") =>
        (result.kind = "ok" /\ loaded)

\* C3: when every candidate is rejected load() raises VideoNotFound if no
\* request raised an aiohttp.ClientError, and else NetworkError with the error of
\* the last request that raised one
C3_NotFoundOrLastError ==
    (Constructed /\ Finished /\ AllRejected) =>
        result = IF Failing = {} THEN Outcome("VideoNotFound", NoError)
                 ELSE Outcome("NetworkError", Last(Failing))

C3_Witness ==
    /\ Constructed
    /\ Finished
    /\ AllRejected
    /\ Len(Cands) = 4
    /\ Failing = {1, 2}
    /\ result = Outcome("NetworkError", 2)
    /\ site.answers[4] = "404"

\* C4, as claimed: when every candidate is rejected and one of them answered
\* with a status other than 200 and 404, load() raises NetworkError
C4_StatusRaisesNetworkError ==
    (Constructed /\ Finished /\ AllRejected
        /\ \E i \in 1..Len(Cands) : site.answers[i] = "status") =>
        result.kind = "NetworkError"

\* C5, as claimed: constructing and loading a Video ends with a loaded record,
\* InvalidURL, VideoNotFound or NetworkError and with nothing else
C5_OnlyDocumentedFailures ==
    result.kind \in {"none", "ok", "InvalidURL", "VideoNotFound", "NetworkError"}

(***************************************************************************)
(* Properties of a record                                                  *)
(***************************************************************************)
\* C8: a read of a field, of available_qualities, of get_video_url or of
\* to_dict on a record that no load() has loaded raises the unloaded error,
\* returns nothing and caches nothing; on a loaded record no read raises it
C8_UnloadedGuard ==
    [][reads' = reads + 1 =>
        IF loaded
        THEN last_read'.raised # "unloaded"
        ELSE /\ last_read' = Raised(last_read'.op, "unloaded")
             /\ memo' = memo]_vars

C8_Witness ==
    /\ ~loaded
    /\ Finished
    /\ result.kind = "VideoNotFound"
    /\ last_read = Raised("rating", "unloaded")
    /\ memo = <<>>

\* C9, as claimed: once a record is loaded no step changes its quality-source
\* map or the value of a field that has been computed
C9_LoadedRecordImmutable ==
    [][loaded =>
        /\ quality_urls' = quality_urls
        /\ \A f \in DOMAIN memo : f \in DOMAIN memo' /\ memo'[f] = memo[f]]_vars

(***************************************************************************)
(* Properties of the quality-source map                                    *)
(***************************************************************************)
\* the captures that write label l, in the order the passes meet them
Discovered(cs, l) ==
    SelectSeq(cs, LAMBDA c : CapLabel(c) = l /\ ~Falsy(clean_video_url(c.url)))

\* C10, as claimed: the URL the map holds for a label is the first URL found
\* for that label, in the order of the passes
C10_FirstWriterWins ==
    parse_out # NotRun =>
        \A i \in 1..Len(parse_out) :
            parse_out[i][2] = clean_video_url(Discovered(page_caps, parse_out[i][1])[1].url)

IsAbsolute(u) == StartsWith(u, S_http_scheme) \/ StartsWith(u, S_https_scheme)

\* C11, as claimed: every URL stored in the quality-source map starts with
\* http:// or https://
C11_StoredUrlsAbsolute ==
    parse_out # NotRun => \A i \in 1..Len(parse_out) : IsAbsolute(parse_out[i][2])

(***************************************************************************)
(* Properties of get_video_url                                             *)
(***************************************************************************)
Picked == parse_out # NotRun /\ picked # NoPick

Resolutions(m) == {get_resolution(m[i][1]) : i \in 1..Len(m)}

\* the URLs m holds under a label of resolution r
UrlsOfResolution(m, r) == {m[i][2] : i \in {j \in 1..Len(m) : get_resolution(m[j][1]) = r}}

C13_BestIsHighestWorstIsLowest ==
    (Picked /\ Len(parse_out) > 0) =>
        /\ picked.url # NoUrl
        /\ picked.request = L_best =>
            picked.url \in UrlsOfResolution(parse_out,
                CHOOSE r \in Resolutions(parse_out) : \A x \in Resolutions(parse_out) : x <= r)
        /\ picked.request = L_worst =>
            picked.url \in UrlsOfResolution(parse_out,
                CHOOSE r \in Resolutions(parse_out) : \A x \in Resolutions(parse_out) : r <= x)

(***************************************************************************)
(* Properties of rating, parse_view_count and parse_duration               *)
(***************************************************************************)
Applied(fn) == text_in.fn = fn /\ text_out # NotApplied

Likes == VoteCount(text_in.arg[1], text_in.arg[2])
Dislikes == VoteCount(text_in.arg[3], text_in.arg[4])
Abs(n) == IF n < 0 THEN -n ELSE n

\* C14, as claimed: rating (in hundredths) lies in 0..10000, is 0 exactly when
\* likes + dislikes = 0, and is else likes / (likes + dislikes) * 100 rounded to
\* two decimals
C14_RatingRangeAndZero ==
    Applied("rating") =>
        /\ text_out.raised = "no"
        /\ text_out.value \in 0..10000
        /\ text_out.value = 0 <=> Likes + Dislikes = 0
        /\ Likes + Dislikes # 0 =>
            2 * Abs(text_out.value * (Likes + Dislikes) - Likes * 10000)
                <= Abs(Likes + Dislikes)

IsCountChar(c) == c \in Digits \cup {",", ".", " "}

\* digits and commas only, a digit first
CommaGrouped(s) ==
    /\ Len(s) > 0
    /\ s[1] \in Digits
    /\ \A i \in 1..Len(s) : s[i] \in Digits \cup {","}

\* <digits>[.<digits>] followed by K, M or B
SuffixedDecimal(s) ==
    /\ Len(s) >= 2
    /\ Upper(<<s[Len(s)]>>)[1] \in {"K", "M", "B"}
    /\ LET body == SubSeq(s, 1, Len(s) - 1)
       IN \/ IsDigit(body)
          \/ \E p \in 2..(Len(body) - 1) :
                /\ body[p] = "."
                /\ IsDigit(SubSeq(body, 1, p - 1))
                /\ IsDigit(SubSeq(body, p + 1, Len(body)))

\* the digits of a decimal, and the number of them after the point
DecimalDigits(body) == Without(body, ".")
DecimalPlaces(body) ==
    IF Positions(body, ".") = {} THEN 0
    ELSE Len(body) - (CHOOSE p \in Positions(body, ".") : TRUE)

\* a character that belongs to no number and is no K/M/B suffix
NonNumericRemainder(s) ==
    \E i \in 1..Len(s) :
        /\ ~IsCountChar(s[i])
        /\ ~(i = Len(s) /\ Upper(<<s[i]>>)[1] \in {"K", "M", "B"})

\* C15, as claimed: parse_view_count never raises, returns the value of a
\* comma-grouped integer, the decimal times 10^3, 10^6 or 10^9 for a K, M or B
\* suffix, and 0 for an input with a non-numeric remainder
C15_ParseViewCount ==
    Applied("parse_view_count") =>
        LET s == text_in.arg
            body == SubSeq(s, 1, Len(s) - 1)
        IN /\ text_out.raised = "no"
           /\ CommaGrouped(s) => text_out.value = ToInt(Without(s, ","))
           /\ (SuffixedDecimal(s) /\ DecimalPlaces(body) <= 3) =>
                text_out.value = ToInt(DecimalDigits(body))
                    * (Multiplier(Upper(<<s[Len(s)]>>)[1]) \div Pow10(DecimalPlaces(body)))
           /\ NonNumericRemainder(s) => text_out.value = 0

\* p is empty or <digits>X
UnitPart(p, X) ==
    p = <<>> \/ (Len(p) >= 2 /\ p[Len(p)] = X /\ IsDigit(SubSeq(p, 1, Len(p) - 1)))
UnitValue(p) == IF p = <<>> THEN 0 ELSE ToInt(SubSeq(p, 1, Len(p) - 1))

\* C16: parse_duration returns 60*MM+SS for MM:SS, 3600*H+60*MM+SS for H:MM:SS,
\* the same sum for PT[nH][nM][nS], the number for a bare integer, and never a
\* negative number
C16_ParseDuration ==
    Applied("parse_duration") =>
        LET s == text_in.arg
            v == text_out.value
        IN /\ text_out.raised = "no"
           /\ v >= 0
           /\ IsDigit(s) => v = ToInt(s)
           /\ \A i \in 2..(Len(s) - 1) :
                (s[i] = ":" /\ IsDigit(SubSeq(s, 1, i - 1)) /\ IsDigit(SubSeq(s, i + 1, Len(s))))
                    => v = 60 * ToInt(SubSeq(s, 1, i - 1)) + ToInt(SubSeq(s, i + 1, Len(s)))
           /\ \A i \in 2..(Len(s) - 3) : \A j \in (i + 2)..(Len(s) - 1) :
                (/\ s[i] = ":" /\ s[j] = ":"
                 /\ IsDigit(SubSeq(s, 1, i - 1))
                 /\ IsDigit(SubSeq(s, i + 1, j - 1))
                 /\ IsDigit(SubSeq(s, j + 1, Len(s))))
                    => v = 3600 * ToInt(SubSeq(s, 1, i - 1))
                           + 60 * ToInt(SubSeq(s, i + 1, j - 1))
                           + ToInt(SubSeq(s, j + 1, Len(s)))
           /\ StartsWith(s, <<"P", "T">>) =>
                \A i \in 2..Len(s) : \A j \in i..Len(s) :
                    (/\ UnitPart(SubSeq(s, 3, i), "H")
                     /\ UnitPart(SubSeq(s, i + 1, j), "M")
                     /\ UnitPart(SubSeq(s, j + 1, Len(s)), "S"))
                        => v = 3600 * UnitValue(SubSeq(s, 3, i))
                               + 60 * UnitValue(SubSeq(s, i + 1, j))
                               + UnitValue(SubSeq(s, j + 1, Len(s)))

C16_Witness ==
    /\ Applied("parse_duration")
    /\ text_in.arg = <<"P","T","5","M","3","0","S">>
    /\ text_out = Value(330)

(***************************************************************************)
(* Properties of the listing extraction                                    *)
(***************************************************************************)
IdsOf(es) == [i \in 1..Len(es) |-> es[i].video_id]
LinkIdsOf(ms) == [i \in 1..Len(ms) |-> ms[i].id]

\* the matches of the first pattern of Client.search that has any
Winning(page) ==
    IF \E k \in 1..Len(StrategyKinds) : Len(Matches(page, k)) > 0
    THEN Matches(page, CHOOSE k \in 1..Len(StrategyKinds) :
                           /\ Len(Matches(page, k)) > 0
                           /\ \A j \in 1..(k - 1) : Len(Matches(page, j)) = 0)
    ELSE <<>>

\* the matches a call of text_in.fn collects from
Source ==
    IF text_in.fn = "search" THEN Winning(text_in.arg[1]) ELSE Matches(text_in.arg[1], 1)

Min(a, b) == IF a <= b THEN a ELSE b
Range(f) == {f[i] : i \in 1..Len(f)}
FirstAt(f, x) == CHOOSE i \in 1..Len(f) : f[i] = x /\ \A j \in 1..(i - 1) : f[j] # x

Listing ==
    Applied("search") \/ Applied("get_videos_by_tag") \/ Applied("get_videos_by_category")

\* C17: a listing result holds no id twice, has min(k, max_results) entries for
\* k distinct ids matched, and holds the ids met first, in the order they are
\* first met in the page
C17_ListingDedupOrderBound ==
    Listing =>
        LET out == IdsOf(text_out.value)
            src == LinkIdsOf(Source)
        IN /\ \A i, j \in 1..Len(out) : i # j => out[i] # out[j]
           /\ Len(out) = Min(Cardinality(Range(src)), text_in.arg[2])
           /\ Range(out) \subseteq Range(src)
           /\ \A i, j \in 1..Len(out) : i < j => FirstAt(src, out[i]) < FirstAt(src, out[j])
           /\ \A x \in Range(src) : \A i \in 1..Len(out) :
                FirstAt(src, x) < FirstAt(src, out[i]) => x \in Range(out)

C17_Witness ==
    /\ Applied("search")
    /\ LinkIdsOf(text_in.arg[1]) = << <<"2">>, <<"2">>, <<"1">> >>
    /\ text_in.arg[2] = 2
    /\ IdsOf(text_out.value) = << <<"2">>, <<"1">> >>

(***************************************************************************)
(* Properties of search_videos                                             *)
(***************************************************************************)
Detailed == text_in.fn = "search_videos" /\ text_in.arg[3]
Listed == text_in.arg[1]
Fate == text_in.arg[2]
IdsWhere(ok) ==
    LET at == SelectSeq([i \in 1..Len(Listed) |-> i], LAMBDA i : (Fate[i] = "ok") = ok)
    IN [n \in 1..Len(at) |-> Listed[at[n]].video_id]

\* C18: with load_details the get_video of an entry ends the way it ends on its
\* own whatever its siblings do, search_videos raises nothing and returns the
\* records of the entries that loaded, in listing order, and logs one warning
\* for each entry that failed
C18_FailuresAreIsolated ==
    Detailed =>
        /\ search_pc # "idle" =>
             /\ Len(tasks) = Len(Listed)
             /\ \A i \in 1..Len(tasks) : tasks[i] \in {"pending", Fate[i]}
        /\ search_pc = "done" =>
             /\ \A i \in 1..Len(tasks) : tasks[i] = Fate[i]
             /\ text_out.raised = "no"
             /\ IdsOf(text_out.value) = IdsWhere(TRUE)
             /\ \A n \in 1..Len(text_out.value) : text_out.value[n].loaded
             /\ warnings = IdsWhere(FALSE)

C18_Witness ==
    /\ Detailed
    /\ search_pc = "done"
    /\ Len(Listed) = 3
    /\ Fate = <<"ok", "NetworkError", "ok">>
    /\ Len(text_out.value) = 2
    /\ Len(warnings) = 1

(***************************************************************************)
(* Properties of the checks of load()                                      *)
(***************************************************************************)
NegativeSignatures == {S_video_not_found, S_title_404, S_page_not_found}
Checked == Applied("load_check")
CheckedStatus == text_in.arg[1]
CheckedText == Join(text_in.arg[2])
CheckedLen == text_in.arg[3]
Signed == \E sig \in NegativeSignatures : Contains(CheckedText, sig)
Marked ==
    \E i \in 1..Len(video_indicators) :
        \E at \in 1..Len(CheckedText) :
            MatchAt(Lower(CheckedText), Lower(video_indicators[i]), at)

\* C19: a candidate is accepted exactly when its status is 200, its body holds
\* none of the three error-page texts, is at least 1000 long, and holds a
\* marker or is longer than 5000; a body with an error-page text is rejected
\* whatever its markers and length
C19_AcceptanceRule ==
    Checked =>
        /\ text_out.value <=>
             /\ CheckedStatus = 200
             /\ ~Signed
             /\ CheckedLen >= 1000
             /\ (Marked \/ CheckedLen > 5000)
        /\ Signed => ~text_out.value

C19_Witness ==
    /\ Checked
    /\ CheckedStatus = 200
    /\ Signed
    /\ Marked
    /\ CheckedLen > 5000
    /\ ~text_out.value

(***************************************************************************)
(* Properties of _get_url_variants                                         *)
(***************************************************************************)
KnownPath == Applied("_get_url_variants") /\ ~Falsy(text_in.arg[2])

\* the full path on the site origin
Absolute(fu) ==
    IF StartsWith(fu, <<"h","t","t","p",":","/","/">>) \/ StartsWith(fu, <<"h","t","t","p","s",":","/","/">>)
    THEN fu
    ELSE ROOT_URL \o fu

\* every /video/ segment becomes /videos/ and every /videos/ segment /video/
RECURSIVE SwapSegments(_)
SwapSegments(u) ==
    IF Len(u) = 0 THEN <<>>
    ELSE IF MatchAt(u, <<"/","v","i","d","e","o","s","/">>, 1)
         THEN <<"/","v","i","d","e","o","/">> \o SwapSegments(SubSeq(u, 9, Len(u)))
    ELSE IF MatchAt(u, <<"/","v","i","d","e","o","/">>, 1)
         THEN <<"/","v","i","d","e","o","s","/">> \o SwapSegments(SubSeq(u, 8, Len(u)))
    ELSE <<u[1]>> \o SwapSegments(Tail(u))

\* the URLs of the claim before duplicates are dropped
Emitted ==
    LET abs == Absolute(text_in.arg[2])
        id == text_in.arg[1]
    IN << abs, SwapSegments(abs),
          ROOT_URL \o <<"/","v","i","d","e","o","/">> \o id \o <<"/">>,
          ROOT_URL \o <<"/","v","i","d","e","o","s","/">> \o id \o <<"/">>,
          ROOT_URL \o <<"/","v","i","d","e","o","/">> \o id,
          ROOT_URL \o <<"/","v","i","d","e","o","s","/">> \o id >>

\* C20: with a known full path the list is the full path on the site origin,
\* its sibling with the /video/ and /videos/ segments swapped and the four
\* id-only URLs, in this order, each URL once at its first position
C20_KnownPathOrder ==
    KnownPath =>
        LET out == text_out.value
        IN /\ \A i, j \in 1..Len(out) : i # j => out[i] # out[j]
           /\ Range(out) = Range(Emitted)
           /\ \A i, j \in 1..Len(out) : i < j => FirstAt(Emitted, out[i]) < FirstAt(Emitted, out[j])

(***************************************************************************)
(* Properties of select_best_quality                                       *)
(***************************************************************************)
Selected == Applied("select_best_quality") /\ Len(text_in.arg[1]) > 0
Offered == Range(text_in.arg[1])
HalfRequest ==
    Strip(Lower(text_in.arg[2])) \in {<<"h","a","l","f">>, <<"m","e","d","i","u","m">>, <<"m","i","d">>}

\* the number a request for a resolution names
RequestedResolution == ToInt(FirstDigitRun(text_in.arg[2]))

ResOf(l) == IF FirstDigitRun(l) = <<>> THEN 0 ELSE ToInt(FirstDigitRun(l))
Above(r) == Cardinality({l \in Offered : ResOf(l) > r})
NotBelow(r) == Cardinality({l \in Offered : ResOf(l) >= r})

\* C21: a request for resolution R selects a label of resolution R if there is
\* one, else a label of the highest resolution not above R, else a label of the
\* lowest resolution; a request for the middle selects the label at index
\* floor(n/2) of the labels ranked by resolution, highest first
C21_ExplicitAndHalfSelection ==
    Selected =>
        LET l == text_out.value
            R == RequestedResolution
        IN /\ l \in Offered
           /\ HalfRequest =>
                /\ Above(ResOf(l)) <= Cardinality(Offered) \div 2
                /\ Cardinality(Offered) \div 2 < NotBelow(ResOf(l))
           /\ ~HalfRequest =>
                IF \E x \in Offered : ResOf(x) = R THEN ResOf(l) = R
                ELSE IF \E x \in Offered : ResOf(x) <= R
                     THEN ResOf(l) <= R /\ \A x \in Offered : ResOf(x) <= R => ResOf(x) <= ResOf(l)
                     ELSE \A x \in Offered : ResOf(l) <= ResOf(x)

C21_Witness ==
    /\ Selected
    /\ text_in.arg[1] = <<L_480p, L_1080p, L_360p>>
    /\ text_in.arg[2] = <<"9","0","0">>
    /\ text_out.value = L_480p

(***************************************************************************)
(* Properties of the field cascades                                        *)
(***************************************************************************)
CascadeRead == text_in.fn \in {"duration", "thumbnail", "views", "upload_date", "uploader"}
                 /\ text_out # NotApplied
CascadeOf == Cascade(text_in.fn)

\* what strategy k reads from the page, as a value of the field
Converted(k) ==
    LET c == text_in.arg[CascadeOf[k].name]
        fn == text_in.fn
    IN CASE fn = "duration" ->
              IF CascadeOf[k].name \in {"alt", "flashvars"}
              THEN (IF IsDigit(c) THEN ToInt(c) ELSE 0)
              ELSE parse_duration(c)
         [] fn = "views" ->
              IF CascadeOf[k].name = "flashvars"
              THEN (IF IsDigit(c) THEN ToInt(c) ELSE 0)
              ELSE parse_view_count(c).value
         [] fn = "thumbnail" -> FixUrl(c)
         [] OTHER -> clean_text(c)

\* strategy k matches and its value is not empty and means something
Valid(k) ==
    /\ text_in.arg[CascadeOf[k].name] # None
    /\ CASE text_in.fn \in {"duration", "views"} -> Converted(k) > 0
         [] text_in.fn = "upload_date" -> DateLike(Converted(k)) /\ Len(Converted(k)) > 4
         [] OTHER -> Converted(k) # <<>>

KindRank(kind) ==
    CASE kind = "flashvars" -> 1
      [] kind = "meta" -> 2
      [] kind = "class" -> 3
      [] OTHER -> 4

Before(j, k) ==
    \/ KindRank(CascadeOf[j].kind) < KindRank(CascadeOf[k].kind)
    \/ KindRank(CascadeOf[j].kind) = KindRank(CascadeOf[k].kind) /\ j < k

\* C22, as claimed: the value read is the valid value of the flashvars block if
\* there is one, else that of a meta tag, else that of an element class, else
\* that of a pattern over the body text
C22_SourcePrecedence ==
    (CascadeRead /\ \E k \in 1..Len(CascadeOf) : Valid(k)) =>
        LET w == CHOOSE k \in 1..Len(CascadeOf) :
                     Valid(k) /\ \A j \in 1..Len(CascadeOf) : Valid(j) /\ j # k => Before(k, j)
        IN text_out = Value(Converted(w))

\* C23, as claimed: a strategy that matches with an empty or meaningless value
\* is passed over, the first strategy with a valid value gives the field, and
\* the default is returned only when no strategy has a valid value
C23_InvalidValueDoesNotWin ==
    CascadeRead =>
        IF \E k \in 1..Len(CascadeOf) : Valid(k)
        THEN text_out = Value(Converted(CHOOSE k \in 1..Len(CascadeOf) :
                                           Valid(k) /\ \A j \in 1..(k - 1) : ~Valid(j)))
        ELSE text_out = Value(Default(text_in.fn))

\* C24, as claimed: every entry of a listing has a path of the form
\* /video/<id>/... that ends with '/'
C24_EntryPathsCanonical ==
    Listing =>
        \A i \in 1..Len(text_out.value) :
            LET e == text_out.value[i]
            IN /\ StartsWith(e.full_path, <<"/","v","i","d","e","o","/">> \o e.video_id \o <<"/">>)
               /\ EndsWith(e.full_path, <<"/">>)
               /\ e.url = ROOT_URL \o e.full_path

(***************************************************************************)
(* Properties of load() and close() on the state of a record               *)
(***************************************************************************)
\* the three fields load() publishes
Published == <<loaded, html, quality_urls>>

\* the step that ends a load() with `return True` after a fetch
Succeeds == pc = "text" /\ pc' = "idle" /\ result'.kind = "ok"

\* C25: the loaded flag, the page body and the quality map change only in the
\* one step in which load() stores an accepted body and returns True; every
\* step of a load() that is cancelled or that raises leaves the three as they
\* were, also on a record that was loaded before
C25_FailedLoadLeavesRecord ==
    [][(Published' # Published) => (Succeeds /\ loaded' /\ html' # NoBody)]_vars

\* a forced reload of a loaded record was cancelled or raised, and the record
\* is still the loaded one
C25_Witness ==
    /\ pc = "idle"
    /\ loads = 2
    /\ result.kind \in {"CancelledError", "VideoNotFound", "NetworkError"}
    /\ loaded
    /\ html # NoBody
    /\ quality_urls = first_map
    /\ Len(quality_urls) > 0

\* C28, as claimed: after close() no session the record made itself is left
\* open
C28_CloseClosesOwnSession ==
    pc = "closed" => session # "created"

\* C26, as claimed: the label of every media URL the unscoped scan of the page
\* finds is in the map after _parse_quality_urls, also when an earlier pass
\* has filled in other labels
C26_ScanAlwaysMerges ==
    parse_out # NotRun =>
        \A i \in 1..Len(page_caps) :
            (page_caps[i].pass = 6 /\ ~Falsy(clean_video_url(page_caps[i].url))) =>
                MapHas(parse_out, CapLabel(page_caps[i]))

(***************************************************************************)
(* Properties of the counts read from flashvars                            *)
(***************************************************************************)
\* the value written for key in the block, as a number
Written(es, key) ==
    ToInt(es[CHOOSE i \in 1..Len(es) : es[i].key = key].value)

HasKey(es, key) == \E i \in 1..Len(es) : es[i].key = key

\* C27, as claimed: on a block that holds both 'likes' and 'dislikes', likes
\* is the value written for 'likes' and dislikes the value written for
\* 'dislikes', in whatever order the two keys stand
C27_CountsReadOwnKey ==
    ((Applied("likes") \/ Applied("dislikes"))
        /\ HasKey(text_in.arg, K_likes) /\ HasKey(text_in.arg, K_dislikes)) =>
        text_out.value = Written(text_in.arg,
                                 IF text_in.fn = "likes" THEN K_likes ELSE K_dislikes)

\* a listing command has answered
Answered == text_in.fn \in Commands /\ text_out # NotApplied

\* the results Client.search gave the command
Found == search(text_in.arg[1], text_in.arg[2])

\* C29, as claimed: a listing command renders every entry Client.search
\* returns, with the bare id for an entry without a slug, and does not end in
\* its error message
C29_EveryEntryRendered ==
    (Answered /\ Len(Found) > 0) =>
        /\ text_out.value.kind = "listing"
        /\ Len(text_out.value.lines) = Len(Found)
        /\ \A i \in 1..Len(Found) :
            text_out.value.lines[i].text =
                IF Falsy(Found[i].slug) THEN Found[i].video_id
                ELSE Found[i].video_id \o S_slash \o Found[i].slug

(***************************************************************************)
(* Properties of the id -> URL cache                                       *)
(***************************************************************************)
\* a URL of id that names more than the id: it does not end with /<id>/
SlugQualified(id, url) == ~EndsWith(url, S_slash \o id \o S_slash)

\* the places of a listing that hold a slug-qualified URL of id
QualifiedAt(results, id) ==
    {i \in 1..Len(results) :
        results[i].video_id = id /\ SlugQualified(id, results[i].url)}

\* the first place of a listing that is about id
FirstFor(results, id) ==
    CHOOSE i \in 1..Len(results) :
        results[i].video_id = id /\ \A j \in 1..(i - 1) : results[j].video_id # id

\* C30: a call of _cache_search_results removes no entry, stores a bare-id URL
\* only for an id that had no entry, so that a slug-qualified URL is never
\* replaced by a bare-id one, and stores the last slug-qualified URL the
\* listing holds for an id whatever the cache held for it
C30_CacheKeepsSlugUrls ==
    [][LET results == text_in'.arg
       IN /\ \A id \in DOMAIN url_cache :
               /\ id \in DOMAIN url_cache'
               /\ SlugQualified(id, url_cache[id]) => SlugQualified(id, url_cache'[id])
               /\ ~SlugQualified(id, url_cache'[id]) => url_cache'[id] = url_cache[id]
          /\ \A i \in 1..Len(results) :
               LET id == results[i].video_id
                   Q == QualifiedAt(results, id)
               IN /\ id \in DOMAIN url_cache'
                  /\ Q # {} => url_cache'[id] = results[CHOOSE k \in Q : \A j \in Q : j <= k].url
                  /\ (Q = {} /\ id \notin DOMAIN url_cache) =>
                         url_cache'[id] = results[FirstFor(results, id)].url]_vars

\* the listing just cached holds a bare-id URL of an id for which the cache
\* keeps a slug-qualified URL
C30_Witness ==
    /\ text_in.fn = "_cache_search_results"
    /\ \E i \in 1..Len(text_in.arg) :
        LET id == text_in.arg[i].video_id
        IN /\ ~SlugQualified(id, text_in.arg[i].url)
           /\ QualifiedAt(text_in.arg, id) = {}
           /\ id \in DOMAIN url_cache
           /\ SlugQualified(id, url_cache[id])

====
